---- MODULE Spec2Model ----
(***************************************************************************)
(* PIILeakTest: the value detectors, the redaction helpers and the four    *)
(* policy assertions, as operators over character sequences, and the       *)
(* calls of the assertions as actions.                                     *)
(*                                                                         *)
(* A Python str is a sequence of one-character strings, so that regular    *)
(* expressions, strip(), split() and slicing are computed, not assumed.    *)
(***************************************************************************)
EXTENDS Integers, Sequences, FiniteSets, TLC

(***************************************************************************)
(* Characters and regular-expression classes                               *)
(***************************************************************************)
Digits == {"0", "1", "2", "3", "4", "5", "6", "7", "8", "9"}

LowerLetters ==
    {"a", "b", "c", "d", "e", "f", "g", "h", "i", "j", "k", "l", "m",
     "n", "o", "p", "q", "r", "s", "t", "u", "v", "w", "x", "y", "z"}

UpperLetters ==
    {"A", "B", "C", "D", "E", "F", "G", "H", "I", "J", "K", "L", "M",
     "N", "O", "P", "Q", "R", "S", "T", "U", "V", "W", "X", "Y", "Z"}

Letters == LowerLetters \cup UpperLetters

\* [a-fA-F0-9]
HexChars == Digits \cup {"a", "b", "c", "d", "e", "f", "A", "B", "C", "D", "E", "F"}

\* \w restricted to ASCII
WordChars == Letters \cup Digits \cup {"_"}

\* \s and the characters str.strip() removes, restricted to ASCII
Whitespace == {" ", "\t", "\n", "\r"}

\* [a-zA-Z0-9._%+-]
EmailLocalChars == Letters \cup Digits \cup {".", "_", "%", "+", "-"}

\* [a-zA-Z0-9.-]
EmailDomainChars == Letters \cup Digits \cup {".", "-"}

\* [a-zA-Z0-9_\-+=/.]
TokenChars == Letters \cup Digits \cup {"_", "-", "+", "=", "/", "."}

\* [\*X]
MaskChars == {"*", "X"}

\* every position i..j of s holds a character of class
InClass(s, i, j, class) == \A k \in i..j : s[k] \in class

\* '.' of a regular expression: any character but a newline
NoNewline(s, i, j) == \A k \in i..j : s[k] # "\n"

\* ^shape$ where shape is a sequence of character classes, one per position
MatchesShape(s, shape) ==
    /\ Len(s) = Len(shape)
    /\ \A k \in 1..Len(s) : s[k] \in shape[k]

\* c in s
Contains(s, c) == \E k \in 1..Len(s) : s[k] = c

\* sub in s (Python's substring test)
IsSubstring(sub, s) ==
    \E i \in 0..(Len(s) - Len(sub)) :
        \A k \in 1..Len(sub) : s[i + k] = sub[k]

\* str.strip()
Strip(s) ==
    LET keep == {k \in 1..Len(s) : s[k] \notin Whitespace}
    IN  IF keep = {} THEN << >>
        ELSE LET lo == CHOOSE k \in keep : \A m \in keep : k <= m
                 hi == CHOOSE k \in keep : \A m \in keep : k >= m
             IN  SubSeq(s, lo, hi)

\* characters of s that are in class, in order (re.sub of the complement by '')
RECURSIVE Filter(_, _)
Filter(s, class) ==
    IF s = << >> THEN << >>
    ELSE IF Head(s) \in class THEN <<Head(s)>> \o Filter(Tail(s), class)
         ELSE Filter(Tail(s), class)

\* s without its characters of class, in order (re.sub of the class by '')
RECURSIVE Remove(_, _)
Remove(s, class) ==
    IF s = << >> THEN << >>
    ELSE IF Head(s) \in class THEN Remove(Tail(s), class)
         ELSE <<Head(s)>> \o Remove(Tail(s), class)

\* n copies of c
Repeat(c, n) == [k \in 1..n |-> c]

(***************************************************************************)
(* models.py: the enumerations                                             *)
(***************************************************************************)
PIIType ==
    {"email", "phone", "ssn", "credit_card", "ip_address", "passport", "dob",
     "zip_code", "full_name", "account_number", "high_entropy_token"}

Severity == {"CRITICAL", "HIGH", "MEDIUM", "LOW", "INFO"}

MaskingType == {"plaintext", "partial_mask", "full_mask", "hash", "tokenized"}

(***************************************************************************)
(* detectors/value_patterns.py: the matcher registry                       *)
(***************************************************************************)
HashMinLen == 32
HashMaxLen == 64

\* ^[a-fA-F0-9]{32,64}$  (the hash_pattern of every matcher)
HashPattern(s) ==
    /\ Len(s) >= HashMinLen
    /\ Len(s) <= HashMaxLen
    /\ InClass(s, 1, Len(s), HexChars)

\* ^[a-zA-Z0-9._%+-]+@[a-zA-Z0-9.-]+\.[a-zA-Z]{2,}$
EmailPattern(s) ==
    \E a \in 2..Len(s) :
        /\ s[a] = "@"
        /\ InClass(s, 1, a - 1, EmailLocalChars)
        /\ \E d \in (a + 2)..(Len(s) - 2) :
              /\ s[d] = "."
              /\ InClass(s, a + 1, d - 1, EmailDomainChars)
              /\ InClass(s, d + 1, Len(s), Letters)

\* \*+@.*\.\w+  matched at the start of the value, not anchored at its end
EmailMaskedPattern(s) ==
    \E a \in 2..Len(s) :
        /\ s[a] = "@"
        /\ InClass(s, 1, a - 1, {"*"})
        /\ \E d \in (a + 1)..(Len(s) - 1) :
              /\ s[d] = "."
              /\ NoNewline(s, a + 1, d - 1)
              /\ s[d + 1] \in WordChars

EmailMatches(value) ==
    LET s == Strip(value) IN EmailPattern(s) \/ EmailMaskedPattern(s)

EmailDetectMasking(value) ==
    IF HashPattern(value) THEN "hash"
    ELSE IF Contains(value, "*") THEN "partial_mask"
    ELSE "plaintext"

D == Digits

\* ^\d{3}-\d{3}-\d{4}$
PhoneDashed(s) ==
    MatchesShape(s, <<D, D, D, {"-"}, D, D, D, {"-"}, D, D, D, D>>)

\* ^\(\d{3}\)\s*\d{3}-\d{4}$
PhoneParens(s) ==
    /\ Len(s) >= 13
    /\ MatchesShape(SubSeq(s, 1, 5), <<{"("}, D, D, D, {")"}>>)
    /\ InClass(s, 6, Len(s) - 8, Whitespace)
    /\ MatchesShape(SubSeq(s, Len(s) - 7, Len(s)),
                    <<D, D, D, {"-"}, D, D, D, D>>)

\* ^\d{10}$
PhoneTenDigits(s) == Len(s) = 10 /\ InClass(s, 1, 10, D)

\* ^\+1\d{10}$
PhonePlusOne(s) ==
    Len(s) = 12 /\ s[1] = "+" /\ s[2] = "1" /\ InClass(s, 3, 12, D)

\* \*+.*\d{4}  matched at the start of the value, not anchored at its end
PhoneMaskedStars(s) ==
    /\ Len(s) >= 5
    /\ s[1] = "*"
    /\ \E j \in 2..(Len(s) - 3) :
          InClass(s, j, j + 3, D) /\ NoNewline(s, 2, j - 1)

\* \(\*+\).*\d{4}  matched at the start of the value, not anchored at its end
PhoneMaskedParens(s) ==
    /\ Len(s) >= 7
    /\ s[1] = "("
    /\ \E c \in 3..Len(s) :
          /\ s[c] = ")"
          /\ InClass(s, 2, c - 1, {"*"})
          /\ \E j \in (c + 1)..(Len(s) - 3) :
                InClass(s, j, j + 3, D) /\ NoNewline(s, c + 1, j - 1)

PhonePlain(s) ==
    PhoneDashed(s) \/ PhoneParens(s) \/ PhoneTenDigits(s) \/ PhonePlusOne(s)

PhoneMatches(value) ==
    LET s == Strip(value)
    IN  PhonePlain(s) \/ PhoneMaskedStars(s) \/ PhoneMaskedParens(s)

PhoneDetectMasking(value) ==
    IF HashPattern(value) THEN "hash"
    ELSE IF Contains(value, "*") THEN "partial_mask"
    ELSE "plaintext"

\* ^\d{3}-\d{2}-\d{4}$ or ^\d{9}$
SSNPlain(s) ==
    \/ MatchesShape(s, <<D, D, D, {"-"}, D, D, {"-"}, D, D, D, D>>)
    \/ (Len(s) = 9 /\ InClass(s, 1, 9, D))

\* ^[\*X]{3}-[\*X]{2}-\d{4}$ or ^[\*X]{5}\d{4}$
SSNMasked(s) ==
    LET M == MaskChars
    IN  \/ MatchesShape(s, <<M, M, M, {"-"}, M, M, {"-"}, D, D, D, D>>)
        \/ MatchesShape(s, <<M, M, M, M, M, D, D, D, D>>)

SSNMatches(value) ==
    LET s == Strip(value) IN SSNPlain(s) \/ SSNMasked(s)

SSNDetectMasking(value) ==
    IF HashPattern(value) THEN "hash"
    ELSE IF Contains(value, "*") \/ Contains(value, "X") THEN "partial_mask"
    ELSE "plaintext"

\* 25[0-5]|2[0-4][0-9]|[01]?[0-9][0-9]?
Octet(o) ==
    \/ (Len(o) = 1 /\ o[1] \in D)
    \/ (Len(o) = 2 /\ InClass(o, 1, 2, D))
    \/ /\ Len(o) = 3
       /\ \/ (o[1] = "2" /\ o[2] = "5" /\ o[3] \in {"0", "1", "2", "3", "4", "5"})
          \/ (o[1] = "2" /\ o[2] \in {"0", "1", "2", "3", "4"} /\ o[3] \in D)
          \/ (o[1] \in {"0", "1"} /\ o[2] \in D /\ o[3] \in D)

\* ^(?:(?:octet)\.){3}(?:octet)$
IPPattern(s) ==
    \E p1, p2, p3 \in 2..(Len(s) - 1) :
        /\ p1 < p2 /\ p2 < p3
        /\ s[p1] = "." /\ s[p2] = "." /\ s[p3] = "."
        /\ Octet(SubSeq(s, 1, p1 - 1))
        /\ Octet(SubSeq(s, p1 + 1, p2 - 1))
        /\ Octet(SubSeq(s, p2 + 1, p3 - 1))
        /\ Octet(SubSeq(s, p3 + 1, Len(s)))

IPAddressMatches(value) == IPPattern(Strip(value))

IPAddressDetectMasking(value) ==
    IF HashPattern(value) THEN "hash"
    ELSE IF Contains(value, "*") THEN "partial_mask"
    ELSE "plaintext"

\* ^\d{5}$ or ^\d{5}-\d{4}$
ZipCodeMatches(value) ==
    LET s == Strip(value)
    IN  \/ (Len(s) = 5 /\ InClass(s, 1, 5, D))
        \/ MatchesShape(s, <<D, D, D, D, D, {"-"}, D, D, D, D>>)

ZipCodeDetectMasking(value) == "plaintext"

\* ^\d{4}-\d{2}-\d{2}$, ^\d{2}/\d{2}/\d{4}$, ^\d{2}-\d{2}-\d{4}$
DOBShape(s) ==
    \/ MatchesShape(s, <<D, D, D, D, {"-"}, D, D, {"-"}, D, D>>)
    \/ MatchesShape(s, <<D, D, {"/"}, D, D, {"/"}, D, D, D, D>>)
    \/ MatchesShape(s, <<D, D, {"-"}, D, D, {"-"}, D, D, D, D>>)

DOBMatches(value) ==
    LET s == Strip(value)
    IN  /\ DOBShape(s)
        /\ (IsSubstring(<<"1", "9">>, s) \/ IsSubstring(<<"2", "0">>, s))

DOBDetectMasking(value) ==
    IF Contains(value, "*") \/ Contains(value, "X") THEN "partial_mask"
    ELSE "plaintext"

AccountMinDigits == 8
AccountMaxDigits == 16

\* the plaintext pattern without its upper bound on the number of digits
AccountPattern_NoMax(s) ==
    /\ Len(s) >= AccountMinDigits
    /\ InClass(s, 1, Len(s), D)

\* ^\d{8,16}$
AccountPattern(s) ==
    /\ Len(s) >= AccountMinDigits
    /\ Len(s) <= AccountMaxDigits
    /\ InClass(s, 1, Len(s), D)

\* ^\*+\d{4}$
AccountMaskedPattern(s) ==
    /\ Len(s) >= 5
    /\ InClass(s, 1, Len(s) - 4, {"*"})
    /\ InClass(s, Len(s) - 3, Len(s), D)

AccountNumberMatches(value) ==
    LET s == Strip(value) IN AccountPattern(s) \/ AccountMaskedPattern(s)

AccountNumberDetectMasking(value) ==
    IF HashPattern(value) THEN "hash"
    ELSE IF Contains(value, "*") THEN "partial_mask"
    ELSE "plaintext"

\* the registry, in its declared order
MATCHERS ==
    <<"email", "phone", "ssn", "ip_address", "zip_code", "dob", "account_number">>

Matches(pii_type, value) ==
    CASE pii_type = "email" -> EmailMatches(value)
      [] pii_type = "phone" -> PhoneMatches(value)
      [] pii_type = "ssn" -> SSNMatches(value)
      [] pii_type = "ip_address" -> IPAddressMatches(value)
      [] pii_type = "zip_code" -> ZipCodeMatches(value)
      [] pii_type = "dob" -> DOBMatches(value)
      [] pii_type = "account_number" -> AccountNumberMatches(value)

DetectMasking(pii_type, value) ==
    CASE pii_type = "email" -> EmailDetectMasking(value)
      [] pii_type = "phone" -> PhoneDetectMasking(value)
      [] pii_type = "ssn" -> SSNDetectMasking(value)
      [] pii_type = "ip_address" -> IPAddressDetectMasking(value)
      [] pii_type = "zip_code" -> ZipCodeDetectMasking(value)
      [] pii_type = "dob" -> DOBDetectMasking(value)
      [] pii_type = "account_number" -> AccountNumberDetectMasking(value)

\* the types of the registry
Registered == {MATCHERS[k] : k \in 1..Len(MATCHERS)}

\* the registry matches of the first n matchers, in registry order
RECURSIVE RegistryScan(_, _)
RegistryScan(value, n) ==
    IF n = 0 THEN << >>
    ELSE LET m == MATCHERS[n]
         IN  RegistryScan(value, n - 1) \o
             (IF Matches(m, value) THEN << <<m, DetectMasking(m, value)>> >>
              ELSE << >>)

\* detect_pii_in_value: a sequence of <<PIIType, MaskingType>>
detect_pii_in_value(value) ==
    IF Strip(value) = << >> THEN << >>
    ELSE RegistryScan(Strip(value), Len(MATCHERS))

(***************************************************************************)
(* detectors/luhn.py                                                       *)
(***************************************************************************)
DigitValue(c) ==
    CASE c = "0" -> 0 [] c = "1" -> 1 [] c = "2" -> 2 [] c = "3" -> 3
      [] c = "4" -> 4 [] c = "5" -> 5 [] c = "6" -> 6 [] c = "7" -> 7
      [] c = "8" -> 8 [] c = "9" -> 9

\* the doubled digit added as it is, without summing its digits
DoubledDigitSum_Plain(d) == 2 * d

\* sum(digits_of(d * 2)) for one digit d
DoubledDigitSum(d) == ((2 * d) \div 10) + ((2 * d) % 10)

\* the checksum over the last n digits: position 1 from the right is added
\* as it is, position 2 from the right is doubled, and so on alternately
RECURSIVE LuhnSum(_, _)
LuhnSum(digits, n) ==
    IF n = 0 THEN 0
    ELSE LET d == DigitValue(digits[Len(digits) - n + 1])
         IN  (IF n % 2 = 1 THEN d ELSE DoubledDigitSum(d)) + LuhnSum(digits, n - 1)

luhn_checksum(card_number) == LuhnSum(card_number, Len(card_number)) % 10 = 0

CardMinDigits == 13
CardMaxDigits == 19

is_credit_card(value) ==
    LET cleaned == Remove(value, Whitespace \cup {"-"})
    IN  /\ Len(cleaned) >= CardMinDigits
        /\ Len(cleaned) <= CardMaxDigits
        /\ InClass(cleaned, 1, Len(cleaned), Digits)
        /\ luhn_checksum(cleaned)

detect_credit_card_masking(value) ==
    IF HashPattern(value) THEN "hash"
    ELSE IF Contains(value, "*") \/ Contains(value, "X") \/ Contains(value, "x")
         THEN "partial_mask"
    ELSE "plaintext"

(***************************************************************************)
(* detectors/entropy.py                                                    *)
(***************************************************************************)
\* floor(10^6 * log2(k)) for k = 1..64: math.log2 in millionths of a bit
Log2Micro ==
    <<
      0, 1000000, 1584962, 2000000, 2321928, 2584962, 2807354, 3000000,
      3169925, 3321928, 3459431, 3584962, 3700439, 3807354, 3906890, 4000000,
      4087462, 4169925, 4247927, 4321928, 4392317, 4459431, 4523561, 4584962,
      4643856, 4700439, 4754887, 4807354, 4857980, 4906890, 4954196, 5000000,
      5044394, 5087462, 5129283, 5169925, 5209453, 5247927, 5285402, 5321928,
      5357552, 5392317, 5426264, 5459431, 5491853, 5523561, 5554588, 5584962,
      5614709, 5643856, 5672425, 5700439, 5727920, 5754887, 5781359, 5807354,
      5832890, 5857980, 5882643, 5906890, 5930737, 5954196, 5977279, 6000000
    >>

\* the number of positions of data holding character c
CountOf(data, c) == Cardinality({k \in 1..Len(data) : data[k] = c})

RECURSIVE SumCLogC(_, _)
SumCLogC(data, chars) ==
    IF chars = {} THEN 0
    ELSE LET c == CHOOSE x \in chars : TRUE
         IN  CountOf(data, c) * Log2Micro[CountOf(data, c)]
             + SumCLogC(data, chars \ {c})

\* len(data) * calculate_shannon_entropy(data), in millionths of a bit:
\* n * H = n * log2(n) - sum of c * log2(c) over the character counts c
LenTimesEntropyMicro(data) ==
    IF data = << >> THEN 0
    ELSE Len(data) * Log2Micro[Len(data)]
         - SumCLogC(data, {data[k] : k \in 1..Len(data)})

\* threshold 4.5 bits per character, in millionths
EntropyThresholdMicro == 4500000

TokenMinLen == 16

is_high_entropy_token(value) ==
    /\ Len(value) >= TokenMinLen
    /\ InClass(value, 1, Len(value), TokenChars)
    /\ LenTimesEntropyMicro(value) >= EntropyThresholdMicro * Len(value)

(***************************************************************************)
(* utils/redaction.py.  A redactor returns [raised, text]: raised is TRUE  *)
(* when the Python code raises IndexError on an empty string's [0].        *)
(***************************************************************************)
Returned(text) == [raised |-> FALSE, text |-> text]

IndexError == [raised |-> TRUE, text |-> << >>]

\* the least position of c in s (s contains c)
FirstIndex(s, c) == CHOOSE k \in 1..Len(s) : s[k] = c /\ \A m \in 1..(k - 1) : s[m] # c

mask_string(s) ==
    IF Len(s) <= 1 THEN Repeat("*", Len(s))
    ELSE <<s[1]>> \o Repeat("*", Len(s) - 1)

redact_email(email) ==
    IF ~Contains(email, "@") THEN Returned(mask_string(email))
    ELSE LET at == FirstIndex(email, "@")
             local == SubSeq(email, 1, at - 1)
             domain == SubSeq(email, at + 1, Len(email))
         IN  IF Contains(domain, ".")
             THEN LET dot == FirstIndex(domain, ".")
                      domain_name == SubSeq(domain, 1, dot - 1)
                      domain_ext == SubSeq(domain, dot + 1, Len(domain))
                  IN  IF local = << >> \/ domain_name = << >> THEN IndexError
                      ELSE Returned(<<local[1], "*", "*", "*", "@",
                                      domain_name[1], "*", "*", "*", ".">>
                                    \o domain_ext)
             ELSE IF local = << >> \/ domain = << >> THEN IndexError
                  ELSE Returned(<<local[1], "*", "*", "*", "@",
                                  domain[1], "*", "*", "*">>)

\* the last four characters of s (Len(s) >= 4)
LastFour(s) == SubSeq(s, Len(s) - 3, Len(s))

redact_ssn(ssn) ==
    IF Len(ssn) >= 4
    THEN Returned(<<"*", "*", "*", "-", "*", "*", "-">> \o LastFour(ssn))
    ELSE Returned(<<"*", "*", "*">>)

redact_phone(phone) ==
    LET digits == Filter(phone, Digits)
    IN  IF Len(digits) >= 4
        THEN Returned(<<"(", "*", "*", "*", ")", " ", "*", "*", "*", "-">>
                      \o LastFour(digits))
        ELSE Returned(<<"*", "*", "*">>)

redact_credit_card(card) ==
    LET digits == Filter(card, Digits)
    IN  IF Len(digits) >= 4
        THEN Returned(<<"*", "*", "*", "*">> \o LastFour(digits))
        ELSE Returned(<<"*", "*", "*", "*">>)

redact_value(value, pii_type) ==
    CASE pii_type = "email" -> redact_email(value)
      [] pii_type = "ssn" -> redact_ssn(value)
      [] pii_type = "phone" -> redact_phone(value)
      [] pii_type = "credit_card" -> redact_credit_card(value)
      [] OTHER -> Returned(mask_string(value))

(***************************************************************************)
(* models.py: Severity is a str enum, so max() over Severity values        *)
(* compares the member values as Python strings                            *)
(***************************************************************************)
Alphabet ==
    <<"A", "B", "C", "D", "E", "F", "G", "H", "I", "J", "K", "L", "M",
      "N", "O", "P", "Q", "R", "S", "T", "U", "V", "W", "X", "Y", "Z">>

\* ord() of an upper-case letter, up to an order-preserving shift
Ord(c) == CHOOSE k \in 1..Len(Alphabet) : Alphabet[k] = c

\* the characters of a Severity member's value
SeverityValue(sev) ==
    CASE sev = "CRITICAL" -> <<"C", "R", "I", "T", "I", "C", "A", "L">>
      [] sev = "HIGH" -> <<"H", "I", "G", "H">>
      [] sev = "MEDIUM" -> <<"M", "E", "D", "I", "U", "M">>
      [] sev = "LOW" -> <<"L", "O", "W">>
      [] sev = "INFO" -> <<"I", "N", "F", "O">>

\* a < b for Python strings: lexicographic by code point, a proper prefix first
StrLess(a, b) ==
    \E k \in 1..(Len(b)) :
        /\ \A m \in 1..(k - 1) : m <= Len(a) /\ a[m] = b[m]
        /\ \/ k = Len(a) + 1
           \/ (k <= Len(a) /\ Ord(a[k]) < Ord(b[k]))

\* a > b as str.__gt__, which Severity inherits
SeverityGreater(a, b) == StrLess(SeverityValue(b), SeverityValue(a))

\* max(sevs) for a non-empty list: the first element no later one exceeds
RECURSIVE PyMax(_)
PyMax(sevs) ==
    IF Len(sevs) = 1 THEN sevs[1]
    ELSE LET best == PyMax(SubSeq(sevs, 1, Len(sevs) - 1))
             last == sevs[Len(sevs)]
         IN  IF SeverityGreater(last, best) THEN last ELSE best

\* max(sevs, default=Severity.INFO)
PyMaxDefault(sevs, default) == IF sevs = << >> THEN default ELSE PyMax(sevs)

(***************************************************************************)
(* assertions/: the scan shared by the four assertions.                    *)
(*                                                                         *)
(* A cell is [na, text]: na is pd.isna(value).  A column is                *)
(* [name, cells], a dataset a sequence of columns of one length, indexed   *)
(* by the default RangeIndex 0, 1, ...                                     *)
(***************************************************************************)
\* detect_pii_in_value(value_str), then the Luhn check: the detections of
\* one cell as <<PIIType, MaskingType>>, in the order the loop body runs
PatternAndCardDetections(value_str) ==
    detect_pii_in_value(value_str) \o
    (IF is_credit_card(value_str)
     THEN << <<"credit_card", detect_credit_card_masking(value_str)>> >>
     ELSE << >>)

\* the same followed by the entropy check
AllDetections(value_str) ==
    PatternAndCardDetections(value_str) \o
    (IF is_high_entropy_token(value_str)
     THEN << <<"high_entropy_token", "plaintext">> >>
     ELSE << >>)

\* cell texts
TextMaskedEmail == <<"*", "*", "*", "@", ".", "c", "o", "m">>
TextEmptyLabelEmail == <<"a", "@", ".", ".", "c", "o">>
TextPlainEmail == <<"j", "o", "@", "e", "x", ".", "c", "o", "m">>
TextPlainSSN == <<" ", "1", "2", "3", "-", "4", "5", "-", "6", "7", "8", "9">>
TextMaskedSSN == <<"*", "*", "*", "-", "*", "*", "-", "6", "7", "8", "9">>
TextCard == <<"4", "1", "1", "1", "1", "1", "1", "1", "1", "1", "1", "1", "1", "1", "1", "1">>
TextToken == <<"a", "b", "c", "d", "e", "f", "g", "h", "i", "j", "k", "l", "m", "n", "o", "p", "q", "r", "s", "t", "u", "v", "w", "x">>
TextHash == <<"5", "d", "4", "1", "4", "0", "2", "a", "b", "c", "4", "b", "2", "a", "7", "6", "b", "9", "7", "1", "9", "d", "9", "1", "1", "0", "1", "7", "c", "5", "9", "2">>

Texts ==
    {TextMaskedEmail, TextEmptyLabelEmail, TextPlainEmail, TextPlainSSN, TextMaskedSSN, TextCard,
     TextToken, TextHash}

\* what the loop body computes from one cell text: value_str = str(value).strip()
\* and the detections of value_str
ScanText(text) ==
    LET value_str == Strip(text)
    IN  [value_str |-> value_str,
         pattern_and_card |-> IF value_str = << >> THEN << >>
                              ELSE PatternAndCardDetections(value_str),
         all |-> IF value_str = << >> THEN << >> ELSE AllDetections(value_str)]

\* ScanText and redact_value over the cell texts, computed once
ScanTable == [text \in Texts |-> ScanText(text)]

RedactTable ==
    [text \in Texts |-> [t \in PIIType |-> redact_value(Strip(text), t)]]

\* the masking assertion's is_violation
IsMaskingViolation(pii_type, masking_type, hash_allowed) ==
    \/ masking_type = "plaintext"
    \/ (masking_type = "hash" /\ pii_type \notin hash_allowed)

\* the (idx, value_str, masking_type) entries a cell of text `text` offers to
\* the buckets, tagged with their PIIType, in order; scan is what the loop
\* body computed from the text.  kind selects the assertion's filter.
CellEntries(kind, scan, text, idx, types, hash_allowed) ==
    IF scan.value_str = << >> THEN << >>
    ELSE LET detected == IF kind = "masking_applied" THEN scan.pattern_and_card
                         ELSE scan.all
             Flagged(d) ==
                 CASE kind = "masking_applied" ->
                          d[1] \in types /\ IsMaskingViolation(d[1], d[2], hash_allowed)
                   [] kind = "only_allowed_pii" -> d[1] \notin types
                   [] OTHER -> d[1] \in types
             Entry(d) == [pii_type |-> d[1], idx |-> idx, text |-> text,
                          value_str |-> scan.value_str, masking_type |-> d[2]]
             flagged == SelectSeq(detected, Flagged)
         IN  [k \in 1..Len(flagged) |-> Entry(flagged[k])]

\* one pass of the row loop: null cells are skipped
CellViolations(kind, cell, idx, types, hash_allowed) ==
    IF cell.na THEN << >>
    ELSE CellEntries(kind, ScanTable[cell.text], cell.text, idx, types, hash_allowed)

\* every entry offered to col_findings by the first n cells of a column
RECURSIVE ColumnViolations(_, _, _, _, _)
ColumnViolations(kind, cells, n, types, hash_allowed) ==
    IF n = 0 THEN << >>
    ELSE ColumnViolations(kind, cells, n - 1, types, hash_allowed)
         \o CellViolations(kind, cells[n], n - 1, types, hash_allowed)

\* the buckets in the order of the registry, whatever the rows hold
BucketOrder_RegistryOrder(entries) ==
    SelectSeq(MATCHERS \o <<"credit_card", "high_entropy_token">>,
              LAMBDA t : \E k \in 1..Len(entries) : entries[k].pii_type = t)

\* the keys of col_findings in insertion order: each type at its first entry
BucketOrder(entries) ==
    LET IsFirst(k) == \A m \in 1..(k - 1) : entries[m].pii_type # entries[k].pii_type
        RECURSIVE Keys(_)
        Keys(n) == IF n = 0 THEN << >>
                   ELSE Keys(n - 1) \o
                        (IF IsFirst(n) THEN <<entries[n].pii_type>> ELSE << >>)
    IN  Keys(Len(entries))

\* the bucket that keeps every entry of the type
Bucket_Uncapped(entries, pii_type, max_violations) ==
    SelectSeq(entries, LAMBDA e : e.pii_type = pii_type)

\* col_findings[pii_type]: the entries of the type, appended only while the
\* bucket holds fewer than max_violations
Bucket(entries, pii_type, max_violations) ==
    LET all == SelectSeq(entries, LAMBDA e : e.pii_type = pii_type)
    IN  IF Len(all) <= max_violations THEN all
        ELSE IF max_violations <= 0 THEN << >>
        ELSE SubSeq(all, 1, max_violations)

\* Finding.severity as each assertion sets it
FindingSeverity(kind, masking_type) ==
    CASE kind = "masking_applied" ->
             (IF masking_type = "plaintext" THEN "CRITICAL"
              ELSE IF masking_type = "hash" THEN "HIGH"
              ELSE "MEDIUM")
      [] kind = "only_allowed_pii" -> "HIGH"
      [] OTHER -> "CRITICAL"

\* Finding.message, word by word (quotes and brackets left out)
FindingMessage(kind, pii_type, col, count, masking_type, source_name, target_name) ==
    CASE kind = "no_forbidden_pii" ->
             <<"Forbidden", "PII", "type", pii_type, "found", "in", "column", col,
               ToString(count), "occurrence(s)">>
      [] kind = "masking_applied" ->
             <<"Required", "masking", "not", "applied", "to", pii_type, "in",
               "column", col, ToString(count), "occurrence(s):">> \o
             (IF masking_type = "plaintext"
              THEN <<"not", "masked", "plaintext", "detected">>
              ELSE IF masking_type = "hash"
              THEN <<"hashed", "but", "hashing", "not", "allowed", "by", "policy">>
              ELSE <<"masking", "insufficient">>)
      [] kind = "only_allowed_pii" ->
             <<"Disallowed", "PII", "type", pii_type, "found", "in", "column", col,
               ToString(count), "occurrence(s)">>
      [] kind = "no_pii_leakage" ->
             <<"PII", "LEAKAGE:", pii_type, "leaked", "from", source_name, "to",
               target_name, "in", "column", col, ToString(count), "occurrence(s)">>

\* the Finding(...) construction of one bucket from its recorded violations;
\* it carries the outcome of its redact_value call in redaction
MakeFinding(kind, violations, pii_type, col, dataset_name, source_name) ==
    LET first_violation == violations[1]
    IN  [dataset |-> dataset_name,
         column |-> col,
         pii_type |-> pii_type,
         masking_type |-> first_violation.masking_type,
         row_index |-> first_violation.idx,
         redaction |-> RedactTable[first_violation.text][pii_type],
         count |-> Len(violations),
         severity |-> FindingSeverity(kind, first_violation.masking_type),
         message |-> FindingMessage(kind, pii_type, col, Len(violations),
                                    first_violation.masking_type,
                                    source_name, dataset_name)]

\* the loop over col_findings.items(): one construction per bucket that
\* recorded a violation, in insertion order
BucketFindings(kind, entries, col, dataset_name, max_violations, source_name) ==
    LET keys == SelectSeq(BucketOrder(entries),
                          LAMBDA t : Bucket(entries, t, max_violations) # << >>)
    IN  [k \in 1..Len(keys) |->
            MakeFinding(kind, Bucket(entries, keys[k], max_violations), keys[k],
                        col, dataset_name, source_name)]

\* the constructions of one column: the row loop, then the bucket loop
ColumnFindings(kind, column, dataset_name, types, hash_allowed, max_violations, source_name) ==
    BucketFindings(kind,
                   ColumnViolations(kind, column.cells, Len(column.cells),
                                    types, hash_allowed),
                   column.name, dataset_name, max_violations, source_name)

\* the findings list after the first n columns
RECURSIVE ScanColumns(_, _, _, _, _, _, _, _)
ScanColumns(kind, df, n, dataset_name, types, hash_allowed, max_violations, source_name) ==
    IF n = 0 THEN << >>
    ELSE ScanColumns(kind, df, n - 1, dataset_name, types, hash_allowed,
                     max_violations, source_name)
         \o ColumnFindings(kind, df[n], dataset_name, types, hash_allowed,
                           max_violations, source_name)

\* sum(f.count for f in findings)
RECURSIVE TotalCount(_)
TotalCount(findings) ==
    IF findings = << >> THEN 0
    ELSE findings[1].count + TotalCount(Tail(findings))

\* len(set(f.pii_type for f in findings))
UniqueTypes(findings) ==
    Cardinality({findings[k].pii_type : k \in 1..Len(findings)})

\* the outcome of a call whose redact_value raised
Raised == [status |-> "raised", exception |-> "IndexError"]

AssertionResult(assertion_type, dataset, passed, findings, message, severity) ==
    [status |-> "returned",
     assertion_type |-> assertion_type,
     dataset |-> dataset,
     passed |-> passed,
     findings |-> findings,
     message |-> message,
     severity |-> severity]

\* the Finding objects of a list of constructions that all returned
Findings(made) ==
    [k \in 1..Len(made) |->
        [dataset |-> made[k].dataset,
         column |-> made[k].column,
         pii_type |-> made[k].pii_type,
         masking_type |-> made[k].masking_type,
         row_index |-> made[k].row_index,
         redacted_sample |-> made[k].redaction.text,
         count |-> made[k].count,
         severity |-> made[k].severity,
         message |-> made[k].message]]

\* the exception leaves the call at the first Finding whose redaction raises
Outcome(made, result) ==
    IF \E k \in 1..Len(made) : made[k].redaction.raised THEN Raised
    ELSE result

(***************************************************************************)
(* assertions/no_pii_assertion.py                                          *)
(***************************************************************************)
\* the tail of the function, after the scan made its constructions
NoForbiddenPiiResult(policy, made) ==
    LET findings == Findings(made)
        passed == Len(findings) = 0
        severity == IF ~passed THEN "CRITICAL" ELSE "INFO"
        message ==
            IF passed
            THEN <<"PASS:", "No", "forbidden", "PII", "detected", "in", policy.name>>
            ELSE <<"FAIL:", policy.name, "contains", ToString(Len(findings)),
                   "forbidden", "PII", "type(s)", "with",
                   ToString(TotalCount(findings)), "total", "violation(s)">>
    IN  Outcome(made,
            AssertionResult("no_forbidden_pii", <<policy.name>>, passed,
                            findings, message, severity))

\* the assertion with the allowed types taken out of the forbidden ones
assert_no_forbidden_pii_AllowedWins(df, policy, max_violations) ==
    LET forbidden_types == policy.forbidden_pii_types \ policy.allowed_pii_types
    IN  IF forbidden_types = {}
        THEN AssertionResult("no_forbidden_pii", <<policy.name>>, TRUE, << >>,
                 <<"No", "forbidden", "PII", "types", "specified", "in", "policy">>,
                 "INFO")
        ELSE NoForbiddenPiiResult(policy,
                 ScanColumns("no_forbidden_pii", df, Len(df), policy.name,
                             forbidden_types, {}, max_violations, policy.name))

assert_no_forbidden_pii(df, policy, max_violations) ==
    LET forbidden_types == policy.forbidden_pii_types
    IN  IF forbidden_types = {}
        THEN AssertionResult("no_forbidden_pii", <<policy.name>>, TRUE, << >>,
                 <<"No", "forbidden", "PII", "types", "specified", "in", "policy">>,
                 "INFO")
        ELSE NoForbiddenPiiResult(policy,
                 ScanColumns("no_forbidden_pii", df, Len(df), policy.name,
                             forbidden_types, {}, max_violations, policy.name))

(***************************************************************************)
(* assertions/masking_assertion.py                                         *)
(***************************************************************************)
\* a fixed severity for a failing result, as the other assertions have
MaskingResultSeverity_Fixed(findings) ==
    IF Len(findings) = 0 THEN "INFO" ELSE "HIGH"

\* severity=max_severity if not passed else Severity.INFO
MaskingResultSeverity(findings) ==
    LET passed == Len(findings) = 0
        max_severity == PyMaxDefault([k \in 1..Len(findings) |-> findings[k].severity],
                                     "INFO")
    IN  IF ~passed THEN max_severity ELSE "INFO"

\* the tail of the function, after the scan made its constructions
MaskingAppliedResult(policy, made) ==
    LET findings == Findings(made)
        passed == Len(findings) = 0
        message ==
            IF passed
            THEN <<"PASS:", "All", "required", "masking", "properly", "applied",
                   "in", policy.name>>
            ELSE <<"FAIL:", policy.name, "has", ToString(Len(findings)),
                   "masking", "violation(s)", "with",
                   ToString(TotalCount(findings)), "total", "occurrence(s)">>
    IN  Outcome(made,
            AssertionResult("masking_applied", <<policy.name>>, passed,
                            findings, message, MaskingResultSeverity(findings)))

\* an empty masking_required_for read as "every type", without the early exit
assert_masking_applied_NoEarlyExit(df, policy, max_violations) ==
    MaskingAppliedResult(policy,
        ScanColumns("masking_applied", df, Len(df), policy.name,
                    IF policy.masking_required_for = {} THEN PIIType
                    ELSE policy.masking_required_for,
                    policy.hash_allowed_for, max_violations, policy.name))

assert_masking_applied(df, policy, max_violations) ==
    LET masking_required == policy.masking_required_for
        hash_allowed == policy.hash_allowed_for
    IN  IF masking_required = {}
        THEN AssertionResult("masking_applied", <<policy.name>>, TRUE, << >>,
                 <<"No", "masking", "requirements", "specified", "in", "policy">>,
                 "INFO")
        ELSE MaskingAppliedResult(policy,
                 ScanColumns("masking_applied", df, Len(df), policy.name,
                             masking_required, hash_allowed, max_violations,
                             policy.name))

(***************************************************************************)
(* assertions/allowed_pii_assertion.py                                     *)
(***************************************************************************)
\* the tail of the function, after the scan made its constructions
OnlyAllowedPiiResult(policy, made) ==
    LET findings == Findings(made)
        passed == Len(findings) = 0
        severity == IF ~passed THEN "HIGH" ELSE "INFO"
        message ==
            IF passed
            THEN <<"PASS:", "Only", "allowed", "PII", "types", "present", "in",
                   policy.name>>
            ELSE <<"FAIL:", policy.name, "contains", ToString(UniqueTypes(findings)),
                   "disallowed", "PII", "type(s)", "with",
                   ToString(TotalCount(findings)), "total", "occurrence(s)">>
    IN  Outcome(made,
            AssertionResult("only_allowed_pii", <<policy.name>>, passed, findings,
                            message, severity))

assert_only_allowed_pii(df, policy, max_violations) ==
    OnlyAllowedPiiResult(policy,
        ScanColumns("only_allowed_pii", df, Len(df), policy.name,
                    policy.allowed_pii_types, {}, max_violations, policy.name))

(***************************************************************************)
(* assertions/leakage_path_assertion.py                                    *)
(***************************************************************************)
\* the types one cell adds to found_types
CellTypes(cell) ==
    IF cell.na THEN {}
    ELSE LET detected == ScanTable[cell.text].all
         IN  {detected[k][1] : k \in 1..Len(detected)}

_detect_pii_types_in_dataframe(df) ==
    UNION {UNION {CellTypes(df[c].cells[r]) : r \in 1..Len(df[c].cells)} :
              c \in 1..Len(df)}

\* the forbidden types without the intersection with the source's types
RiskyTypes_NoIntersection(source_df, target_policy) ==
    target_policy.forbidden_pii_types

\* risky_types = target_forbidden.intersection(source_pii_types)
RiskyTypes(source_df, target_policy) ==
    target_policy.forbidden_pii_types \cap _detect_pii_types_in_dataframe(source_df)

\* AssertionResult.dataset of the leakage assertion
LeakageDataset(source_policy, target_policy) ==
    <<source_policy.name, "->", target_policy.name>>

\* the tail of the function, after the scan made its constructions
NoPiiLeakageResult(source_policy, target_policy, made) ==
    LET findings == Findings(made)
        passed == Len(findings) = 0
        severity == IF ~passed THEN "CRITICAL" ELSE "INFO"
        message ==
            IF passed
            THEN <<"PASS:", "No", "PII", "leakage", "detected", "from",
                   source_policy.name, "to", target_policy.name>>
            ELSE <<"FAIL:", ToString(UniqueTypes(findings)), "PII", "type(s)",
                   "leaked", "from", source_policy.name, "to", target_policy.name,
                   ToString(TotalCount(findings)), "total", "occurrence(s)">>
    IN  Outcome(made,
            AssertionResult("no_pii_leakage",
                            LeakageDataset(source_policy, target_policy),
                            passed, findings, message, severity))

\* the scan of the target for the risky types
LeakageScan(risky_types, target_df, source_policy, target_policy, max_violations) ==
    IF risky_types = {}
    THEN AssertionResult("no_pii_leakage",
             LeakageDataset(source_policy, target_policy), TRUE, << >>,
             <<"No", "risky", "PII", "types", "flow", "from",
               source_policy.name, "to", target_policy.name>>,
             "INFO")
    ELSE NoPiiLeakageResult(source_policy, target_policy,
             ScanColumns("no_pii_leakage", target_df, Len(target_df),
                         target_policy.name, risky_types, {},
                         max_violations, source_policy.name))

assert_no_pii_leakage(source_df, target_df, source_policy, target_policy, max_violations) ==
    IF target_policy.forbidden_pii_types = {}
    THEN AssertionResult("no_pii_leakage",
             LeakageDataset(source_policy, target_policy), TRUE, << >>,
             <<"No", "forbidden", "PII", "types", "in", "target", "policy">>,
             "INFO")
    ELSE LeakageScan(RiskyTypes(source_df, target_policy), target_df,
                     source_policy, target_policy, max_violations)

(***************************************************************************)
(* lineage/graph_trace.py.  A SuiteConfig is [datasets, lineage]: the set  *)
(* of declared dataset names and the list of LineageEdge [source, target]. *)
(***************************************************************************)
\* graph[node]: the targets of the edges that leave node, in declared order
RECURSIVE Neighbors(_, _, _)
Neighbors(lineage, node, n) ==
    IF n = 0 THEN << >>
    ELSE Neighbors(lineage, node, n - 1) \o
         (IF lineage[n].source = node THEN <<lineage[n].target>> ELSE << >>)

\* the keys of graph cut down to the first one
GraphKeys_FirstOnly(lineage, n) ==
    IF n = 0 THEN << >> ELSE <<lineage[1].source>>

\* the keys of graph, in insertion order
RECURSIVE GraphKeys(_, _)
GraphKeys(lineage, n) ==
    IF n = 0 THEN << >>
    ELSE LET keys == GraphKeys(lineage, n - 1)
         IN  IF \E k \in 1..Len(keys) : keys[k] = lineage[n].source THEN keys
             ELSE Append(keys, lineage[n].source)

\* path.index(node)
PathIndex(path, node) ==
    CHOOSE i \in 1..Len(path) :
        path[i] = node /\ \A j \in 1..(i - 1) : path[j] # node

\* the nested dfs and its loop over graph[node], from the i-th neighbor on;
\* walk holds visited, rec_stack and cycles
RECURSIVE dfs(_, _, _, _)
RECURSIVE VisitNeighbors(_, _, _, _, _)
VisitNeighbors(lineage, neighbors, i, path, walk) ==
    IF i > Len(neighbors) THEN walk
    ELSE VisitNeighbors(lineage, neighbors, i + 1, path,
            IF neighbors[i] \notin walk.visited
            THEN dfs(lineage, neighbors[i], path, walk)
            ELSE IF neighbors[i] \in walk.rec_stack
            THEN [walk EXCEPT !.cycles =
                     Append(@, SubSeq(path, PathIndex(path, neighbors[i]), Len(path))
                               \o <<neighbors[i]>>)]
            ELSE walk)

dfs(lineage, node, path, walk) ==
    [VisitNeighbors(lineage, Neighbors(lineage, node, Len(lineage)), 1,
                    Append(path, node),
                    [walk EXCEPT !.visited = @ \cup {node},
                                 !.rec_stack = @ \cup {node}])
        EXCEPT !.rec_stack = @ \ {node}]

\* the loop over the keys of graph, from the i-th key on
RECURSIVE VisitRoots(_, _, _, _)
VisitRoots(lineage, keys, i, walk) ==
    IF i > Len(keys) THEN walk
    ELSE VisitRoots(lineage, keys, i + 1,
            IF keys[i] \notin walk.visited THEN dfs(lineage, keys[i], << >>, walk)
            ELSE walk)

\* reverse_graph[node]: the sources of the edges that enter node, in declared
\* order
RECURSIVE Upstream(_, _, _)
Upstream(lineage, node, n) ==
    IF n = 0 THEN << >>
    ELSE Upstream(lineage, node, n - 1) \o
         (IF lineage[n].target = node THEN <<lineage[n].source>> ELSE << >>)

\* the path left in traversal order, target first
Reversed_Kept(path) == path

\* list(reversed(path))
Reversed(path) == [i \in 1..Len(path) |-> path[Len(path) + 1 - i]]

\* the nested dfs of find_path_to_source and its loop over
\* reverse_graph[current], from the i-th upstream on; both return the paths
\* they append to paths, in order
RECURSIVE PathDfs(_, _, _, _)
RECURSIVE VisitUpstream(_, _, _, _, _)
VisitUpstream(lineage, upstream, i, path, visited) ==
    IF i > Len(upstream) THEN << >>
    ELSE PathDfs(lineage, upstream[i], path, visited) \o
         VisitUpstream(lineage, upstream, i + 1, path, visited)

PathDfs(lineage, current, path, visited) ==
    IF current \in visited THEN << >>
    ELSE IF Upstream(lineage, current, Len(lineage)) = << >>
    THEN << Reversed(Append(path, current)) >>
    ELSE VisitUpstream(lineage, Upstream(lineage, current, Len(lineage)), 1,
                       Append(path, current), visited \cup {current})

find_path_to_source(target_dataset, config) ==
    PathDfs(config.lineage, target_dataset, << >>, {})

\* the last of the paths of the smallest length
ShortestPath_Last(paths) ==
    paths[CHOOSE k \in 1..Len(paths) :
             /\ \A m \in 1..Len(paths) : Len(paths[k]) <= Len(paths[m])
             /\ \A m \in (k + 1)..Len(paths) : Len(paths[m]) > Len(paths[k])]

\* min(paths, key=len): the first of the paths of the smallest length
ShortestPath(paths) ==
    paths[CHOOSE k \in 1..Len(paths) :
             /\ \A m \in 1..Len(paths) : Len(paths[k]) <= Len(paths[m])
             /\ \A m \in 1..(k - 1) : Len(paths[m]) > Len(paths[k])]

\* an Optional[List[str]]: None, or a path
None == [none |-> TRUE, path |-> << >>]

Some(path) == [none |-> FALSE, path |-> path]

trace_pii_leakage_path(pii_type, target_dataset, config) ==
    IF find_path_to_source(target_dataset, config) = << >> THEN None
    ELSE Some(ShortestPath(find_path_to_source(target_dataset, config)))

detect_cycles(config) ==
    VisitRoots(config.lineage, GraphKeys(config.lineage, Len(config.lineage)), 1,
               [visited |-> {}, rec_stack |-> {}, cycles |-> << >>]).cycles

(***************************************************************************)
(* lineage/flow_loader.py                                                  *)
(***************************************************************************)
UnknownSource(edge) ==
    <<"Lineage", "edge", "references", "unknown", "source", "dataset:", edge.source>>

UnknownTarget(edge) ==
    <<"Lineage", "edge", "references", "unknown", "target", "dataset:", edge.target>>

\* the errors of the first n edges
RECURSIVE LineageErrors(_, _)
LineageErrors(config, n) ==
    IF n = 0 THEN << >>
    ELSE LineageErrors(config, n - 1) \o
         (IF config.lineage[n].source \notin config.datasets
          THEN <<UnknownSource(config.lineage[n])>> ELSE << >>) \o
         (IF config.lineage[n].target \notin config.datasets
          THEN <<UnknownTarget(config.lineage[n])>> ELSE << >>)

\* the validation that stops after the first edge
validate_lineage_references_FirstEdge(config) ==
    LineageErrors(config, IF Len(config.lineage) = 0 THEN 0 ELSE 1)

validate_lineage_references(config) == LineageErrors(config, Len(config.lineage))

(***************************************************************************)
(* cli.py.  A configuration is [datasets, lineage]: the list of datasets,  *)
(* each [policy, file] with file = [exists, frame] the data file at the    *)
(* policy's path, and the list of LineageEdge.  A command ends as          *)
(* [status, code, error_path, reached, loaded, assertion_results].         *)
(***************************************************************************)
\* ThresholdConfig.max_violations_to_show
MaxViolationsToShow == 10

\* raise typer.Exit(code) inside the try block of a command: typer.Exit is
\* click's Exit, a RuntimeError, so the command's `except Exception` catches
\* it, reports the error and raises typer.Exit(1)
ExitInsideTry(code) == [code |-> 1, error_path |-> TRUE]

\* typer.echo(message, fg=..., bold=...) inside the try block: typer.echo is
\* click's echo, which takes no style arguments, so the call raises
\* TypeError, and the handler raises typer.Exit(1)
StyledEchoInsideTry == [code |-> 1, error_path |-> TRUE]

CommandEnd(ending, reached, loaded, assertion_results) ==
    [status |-> "exited",
     code |-> ending.code,
     error_path |-> ending.error_path,
     reached |-> reached,
     loaded |-> loaded,
     assertion_results |-> assertion_results]

\* the configuration as validate_lineage_references reads it
Declared(config) ==
    [datasets |-> {config.datasets[i].policy.name : i \in 1..Len(config.datasets)},
     lineage |-> config.lineage]

\* the validation of the lineage left out of the commands
CliLineageErrors_Skipped(config) == << >>

\* the errors on which a command stops before it loads a dataset
CliLineageErrors(config) == validate_lineage_references(Declared(config))

\* the names of the datasets loaded before load_dataframe raises
\* FileNotFoundError, among the first n
RECURSIVE Loaded(_, _)
Loaded(config, n) ==
    IF n = 0 THEN << >>
    ELSE IF Len(Loaded(config, n - 1)) < n - 1 THEN Loaded(config, n - 1)
    ELSE IF config.datasets[n].file.exists
    THEN Append(Loaded(config, n - 1), config.datasets[n].policy.name)
    ELSE Loaded(config, n - 1)

\* the per-dataset assertions of one dataset, each run if its list is set
DatasetChecks(ds) ==
    (IF ds.policy.forbidden_pii_types # {}
     THEN <<assert_no_forbidden_pii(ds.file.frame, ds.policy, MaxViolationsToShow)>>
     ELSE << >>) \o
    (IF ds.policy.masking_required_for # {}
     THEN <<assert_masking_applied(ds.file.frame, ds.policy, MaxViolationsToShow)>>
     ELSE << >>) \o
    (IF ds.policy.allowed_pii_types # {}
     THEN <<assert_only_allowed_pii(ds.file.frame, ds.policy, MaxViolationsToShow)>>
     ELSE << >>)

RECURSIVE PerDatasetChecks(_, _)
PerDatasetChecks(config, n) ==
    IF n = 0 THEN << >>
    ELSE PerDatasetChecks(config, n - 1) \o DatasetChecks(config.datasets[n])

\* next(ds for ds in suite_config.datasets if ds.name == name): the position
\* of the first dataset of the name, 0 where next raises StopIteration
DatasetNamed(config, name) ==
    IF \E i \in 1..Len(config.datasets) : config.datasets[i].policy.name = name
    THEN CHOOSE i \in 1..Len(config.datasets) :
            /\ config.datasets[i].policy.name = name
            /\ \A j \in 1..(i - 1) : config.datasets[j].policy.name # name
    ELSE 0

StopIteration == [status |-> "raised", exception |-> "StopIteration"]

FlowCheck(config, source, target) ==
    IF source = 0 \/ target = 0 THEN StopIteration
    ELSE assert_no_pii_leakage(config.datasets[source].file.frame,
                               config.datasets[target].file.frame,
                               config.datasets[source].policy,
                               config.datasets[target].policy,
                               MaxViolationsToShow)

RECURSIVE LineageChecks(_, _)
LineageChecks(config, n) ==
    IF n = 0 THEN << >>
    ELSE Append(LineageChecks(config, n - 1),
                FlowCheck(config, DatasetNamed(config, config.lineage[n].source),
                          DatasetNamed(config, config.lineage[n].target)))

\* the results appended to suite_result before a call raises
RECURSIVE Appended(_, _)
Appended(outcomes, n) ==
    IF n = 0 THEN << >>
    ELSE IF Len(Appended(outcomes, n - 1)) < n - 1 \/ outcomes[n].status # "returned"
    THEN Appended(outcomes, n - 1)
    ELSE Append(Appended(outcomes, n - 1), outcomes[n])

\* SuiteResult.should_fail_ci
should_fail_ci(assertion_results) ==
    \E k \in 1..Len(assertion_results) :
        /\ ~assertion_results[k].passed
        /\ assertion_results[k].severity \in {"CRITICAL", "HIGH"}

\* run_suite from the assertions on: a call that raises ends the command in
\* the handler; otherwise the summary is echoed, and both of its branches
\* make a styled echo before should_fail_ci is asked
RunAssertions(config, outcomes) ==
    IF \E k \in 1..Len(outcomes) : outcomes[k].status # "returned"
    THEN CommandEnd([code |-> 1, error_path |-> TRUE], "assertions",
                    Loaded(config, Len(config.datasets)),
                    Appended(outcomes, Len(outcomes)))
    ELSE CommandEnd(StyledEchoInsideTry, "summary",
                    Loaded(config, Len(config.datasets)), outcomes)

\* a command from the validation of the lineage on
RunFrom(config, lineage_errors, with_dataset_checks) ==
    IF lineage_errors # << >>
    THEN CommandEnd(ExitInsideTry(1), "validation", << >>, << >>)
    ELSE IF \E i \in 1..Len(config.datasets) : ~config.datasets[i].file.exists
    THEN CommandEnd([code |-> 1, error_path |-> TRUE], "loading",
                    Loaded(config, Len(config.datasets)), << >>)
    ELSE RunAssertions(config,
             (IF with_dataset_checks
              THEN PerDatasetChecks(config, Len(config.datasets)) ELSE << >>)
             \o LineageChecks(config, Len(config.lineage)))

run_suite(config) == RunFrom(config, CliLineageErrors(config), TRUE)

validate_flow(config) ==
    IF config.lineage = << >>
    THEN CommandEnd(ExitInsideTry(0), "no_lineage", << >>, << >>)
    ELSE RunFrom(config, CliLineageErrors(config), FALSE)

(***************************************************************************)

(* The calls.  A state holds one call of the engine: its arguments, drawn  *)
(* in Init, and its outcome, set by the action that runs the callee.       *)
(***************************************************************************)
VARIABLES
    kind,            \* which function is called
    df,              \* the dataset scanned (the target of a leakage check)
    source_df,       \* the upstream dataset of a leakage check
    policy,          \* the DatasetPolicy of df
    source_policy,   \* the DatasetPolicy of source_df
    max_violations,  \* the cap on recorded examples
    severities,      \* the list handed to max()
    input,           \* the text handed to a detector function
    suite,           \* the SuiteConfig handed to a lineage function
    suite_config,    \* the configuration and data files of a command
    result           \* the outcome of the call, [status |-> "pending"] before it

vars == <<kind, df, source_df, policy, source_policy, max_violations,
          severities, input, suite, suite_config,
          result>>

\* bounds of the model
MaxCells == 2
MaxLeakageCells == 3
MaxViolations == 1
MaxSeverities == 3
MaxTailDigits == 1
MaxEdges == 3
MaxFlows == 2

NaCell == [na |-> TRUE, text |-> << >>]

Cells == {NaCell} \cup {[na |-> FALSE, text |-> t] : t \in Texts}

ColumnName(c) == "c" \o ToString(c)

\* the datasets of n_cols columns and n_rows rows
Frames(n_cols, n_rows) ==
    {[c \in 1..n_cols |-> [name |-> ColumnName(c), cells |-> grid[c]]] :
        grid \in [1..n_cols -> [1..n_rows -> Cells]]}

\* the datasets of n cells
DatasetsOf(n) ==
    UNION {Frames(shape[1], shape[2]) :
              shape \in {sh \in (1..n) \X (1..n) : sh[1] * sh[2] = n}}

\* the datasets of at most max_cells cells
Datasets(max_cells) == UNION {DatasetsOf(n) : n \in 1..max_cells}

\* the PIIType lists a policy field is drawn from
TypeLists ==
    {{}, {"email"}, {"ssn", "phone"}, {"credit_card", "high_entropy_token"}}

\* the lists of a target policy: one more, of two types that one upstream
\* dataset need not both hold
LeakageTypeLists == TypeLists \cup {{"email", "ssn"}}

\* the upstream datasets of at most max_cells cells: the leakage check reads an
\* upstream dataset cell by cell whatever its columns, so one column of it
UpstreamDatasets(max_cells) == UNION {Frames(1, n) : n \in 1..max_cells}

EmptyPolicy(name) ==
    [name |-> name,
     allowed_pii_types |-> {},
     forbidden_pii_types |-> {},
     masking_required_for |-> {},
     hash_allowed_for |-> {}]

Pending == [status |-> "pending"]

\* a hexadecimal text of n characters, in mixed case or of digits only
HexCycle == <<"5", "d", "4", "1", "A", "0", "2", "a", "b", "C", "4", "b", "F", "e", "7", "6">>

HexText(n) == [i \in 1..n |-> HexCycle[((i - 1) % Len(HexCycle)) + 1]]

DigitText(n) == [i \in 1..n |-> ToString((3 * i + 1) % 10)]

HexTexts ==
    UNION {{HexText(n), DigitText(n)} : n \in (HashMinLen - 1)..(HashMaxLen + 1)}

\* masked forms, as the redaction step writes them
TextRedactedEmail == <<"j", "*", "*", "*", "@", "e", "*", "*", "*", ".", "c", "o", "m">>
TextRedactedPhone == <<"(", "*", "*", "*", ")", " ", "*", "*", "*", "-", "4", "5", "6", "7">>
TextRedactedCard == <<"*", "*", "*", "*", "0", "3", "6", "6">>

\* the texts handed to the matchers
DetectTexts ==
    Texts \cup HexTexts \cup {TextRedactedEmail, TextRedactedPhone, TextRedactedCard}

\* the separators a card number is written with, every four digits
Separators == {<< >>, <<" ">>, <<"-">>}

RECURSIVE Grouped(_, _)
Grouped(digits, sep) ==
    IF Len(digits) <= 4 THEN digits
    ELSE SubSeq(digits, 1, 4) \o sep \o Grouped(SubSeq(digits, 5, Len(digits)), sep)

\* digit strings around the accepted lengths: a fixed head followed by every
\* tail of MaxTailDigits digits, and the strings of zeros
CardNumbers ==
    UNION {{DigitText(n - MaxTailDigits) \o tail : tail \in [1..MaxTailDigits -> Digits]}
           \cup {Repeat("0", n)} :
              n \in (CardMinDigits - 1)..(CardMaxDigits + 1)}

\* the texts handed to is_credit_card
CardTexts == {Grouped(number, sep) : number \in CardNumbers, sep \in Separators}

\* the single-digit replacements of a text: <<position, digit>>
DigitChanges(text) ==
    {ch \in (1..Len(text)) \X Digits : text[ch[1]] \in Digits /\ text[ch[1]] # ch[2]}

Changed(text, ch) == [text EXCEPT ![ch[1]] = ch[2]]

\* the single-digit replacements of an accepted text that are accepted too
AcceptedChanges(text) ==
    IF is_credit_card(text)
    THEN {ch \in DigitChanges(text) : is_credit_card(Changed(text, ch))}
    ELSE {}

AssertionKinds ==
    {"no_forbidden_pii", "masking_applied", "only_allowed_pii", "no_pii_leakage"}

DetectorKinds == {"matches", "detect_masking", "detect_pii_in_value"}

LineageKinds ==
    {"detect_cycles", "validate_lineage_references", "find_path_to_source",
     "trace_pii_leakage_path"}

CliKinds == {"run_suite", "validate_flow"}

Kinds ==
    AssertionKinds \cup DetectorKinds \cup LineageKinds \cup CliKinds
    \cup {"max", "is_credit_card"}

DatasetNames == {"A", "B", "C"}

LineageEdges == [source : DatasetNames, target : DatasetNames]

\* the lineage lists of at most max_edges edges, multi-edges and loops included
Lineages(max_edges) == UNION {[1..n -> LineageEdges] : n \in 0..max_edges}

\* the sets of declared names: none, some and all of the names edges use
DeclaredNames == {{}, {"A", "B"}, DatasetNames}

EmptySuite == [datasets |-> {}, lineage |-> << >>]

\* the policies of a configured dataset: no list set, or one list set
CliPolicies(name) ==
    {EmptyPolicy(name),
     [EmptyPolicy(name) EXCEPT !.forbidden_pii_types = {"email"}],
     [EmptyPolicy(name) EXCEPT !.masking_required_for = {"email"}],
     [EmptyPolicy(name) EXCEPT !.allowed_pii_types = {"ssn", "phone"}]}

\* the data file of a configured dataset: missing, or one cell
CliFiles ==
    {[exists |-> FALSE, frame |-> << >>]} \cup
    {[exists |-> TRUE,
      frame |-> <<[name |-> ColumnName(1),
                   cells |-> <<[na |-> FALSE, text |-> t]>>]>>] :
        t \in {TextPlainEmail, TextEmptyLabelEmail, TextHash}}

CliDatasets(name) == [policy : CliPolicies(name), file : CliFiles]

\* the edges of a configuration that declares A, or A and B
CliFlows ==
    {[source |-> "A", target |-> "B"], [source |-> "B", target |-> "A"],
     [source |-> "A", target |-> "C"], [source |-> "A", target |-> "A"]}

SuiteConfigs(max_flows) ==
    [datasets : {<<a>> : a \in CliDatasets("A")} \cup
                (CliDatasets("A") \X CliDatasets("B")),
     lineage : UNION {[1..n -> CliFlows] : n \in 0..max_flows}]

\* the arguments of a call that takes no dataset
NoDataset ==
    /\ df = << >>
    /\ source_df = << >>
    /\ policy = EmptyPolicy("orders")
    /\ max_violations = 0

Init ==
    /\ kind \in Kinds
    /\ result = Pending
    /\ source_policy = EmptyPolicy("customers")
    /\ IF kind \in LineageKinds
       THEN suite \in [datasets : IF kind = "validate_lineage_references"
                                  THEN DeclaredNames ELSE {DatasetNames},
                       lineage : Lineages(MaxEdges)]
       ELSE suite = EmptySuite
    /\ IF kind \in CliKinds
       THEN suite_config \in SuiteConfigs(MaxFlows)
       ELSE suite_config = EmptySuite
    /\ IF kind = "max"
       THEN /\ severities \in UNION {[1..n -> Severity] : n \in 1..MaxSeverities}
            /\ input = << >>
            /\ NoDataset
       ELSE IF kind = "is_credit_card"
       THEN /\ severities = << >>
            /\ input \in CardTexts \cup HexTexts
            /\ NoDataset
       ELSE IF kind \in DetectorKinds
       THEN /\ severities = << >>
            /\ input \in DetectTexts
            /\ NoDataset
       ELSE IF kind \in LineageKinds \cup CliKinds
       THEN /\ severities = << >>
            /\ input = << >>
            /\ NoDataset
       ELSE /\ severities = << >>
            /\ input = << >>
            /\ IF kind = "no_pii_leakage"
               THEN \E n \in 1..(MaxLeakageCells - 1) :
                       /\ df \in DatasetsOf(n)
                       /\ source_df \in UpstreamDatasets(MaxLeakageCells - n)
               ELSE /\ df \in Datasets(MaxCells)
                    /\ source_df = << >>
            /\ max_violations \in 0..MaxViolations
            /\ \E types \in LeakageTypeLists, hashes \in {{}, {"ssn", "credit_card"}} :
               \E also_allowed \in BOOLEAN :
                  /\ kind # "masking_applied" => hashes = {}
                  /\ kind # "no_forbidden_pii" => ~also_allowed
                  /\ kind # "no_pii_leakage" => types \in TypeLists
                  /\ policy =
                        [EmptyPolicy("orders") EXCEPT
                            !.forbidden_pii_types =
                                IF kind \in {"no_forbidden_pii", "no_pii_leakage"}
                                THEN types ELSE {},
                            !.allowed_pii_types =
                                IF kind = "only_allowed_pii" \/ also_allowed
                                THEN types ELSE {},
                            !.masking_required_for =
                                IF kind = "masking_applied" THEN types ELSE {},
                            !.hash_allowed_for = hashes]

Unchanged ==
    UNCHANGED <<kind, df, source_df, policy, source_policy, max_violations,
                severities, input, suite, suite_config>>

NoForbiddenPii ==
    /\ kind = "no_forbidden_pii"
    /\ result = Pending
    /\ result' = assert_no_forbidden_pii(df, policy, max_violations)
    /\ Unchanged

MaskingApplied ==
    /\ kind = "masking_applied"
    /\ result = Pending
    /\ result' = assert_masking_applied(df, policy, max_violations)
    /\ Unchanged

OnlyAllowedPii ==
    /\ kind = "only_allowed_pii"
    /\ result = Pending
    /\ result' = assert_only_allowed_pii(df, policy, max_violations)
    /\ Unchanged

NoPiiLeakage ==
    /\ kind = "no_pii_leakage"
    /\ result = Pending
    /\ result' = assert_no_pii_leakage(source_df, df, source_policy, policy,
                                       max_violations)
    /\ Unchanged

MaxSeverity ==
    /\ kind = "max"
    /\ result = Pending
    /\ result' = [status |-> "returned", value |-> PyMax(severities)]
    /\ Unchanged

\* is_credit_card on a text and on each of its single-digit replacements
IsCreditCard ==
    /\ kind = "is_credit_card"
    /\ result = Pending
    /\ result' = [status |-> "returned",
                  value |-> is_credit_card(input),
                  accepted_changes |-> AcceptedChanges(input)]
    /\ Unchanged

\* matches of every matcher of the registry
MatcherMatches ==
    /\ kind = "matches"
    /\ result = Pending
    /\ result' = [status |-> "returned",
                  value |-> [t \in Registered |-> Matches(t, input)]]
    /\ Unchanged

\* detect_masking of every matcher, and detect_credit_card_masking
MatcherDetectMasking ==
    /\ kind = "detect_masking"
    /\ result = Pending
    /\ result' = [status |-> "returned",
                  value |-> [t \in Registered \cup {"credit_card"} |->
                                IF t = "credit_card"
                                THEN detect_credit_card_masking(input)
                                ELSE DetectMasking(t, input)]]
    /\ Unchanged

DetectPiiInValue ==
    /\ kind = "detect_pii_in_value"
    /\ result = Pending
    /\ result' = [status |-> "returned", value |-> detect_pii_in_value(input)]
    /\ Unchanged

DetectCycles ==
    /\ kind = "detect_cycles"
    /\ result = Pending
    /\ result' = [status |-> "returned", value |-> detect_cycles(suite)]
    /\ Unchanged

ValidateLineageReferences ==
    /\ kind = "validate_lineage_references"
    /\ result = Pending
    /\ result' = [status |-> "returned", value |-> validate_lineage_references(suite)]
    /\ Unchanged

\* find_path_to_source for every target
FindPathToSource ==
    /\ kind = "find_path_to_source"
    /\ result = Pending
    /\ result' = [status |-> "returned",
                  value |-> [t \in DatasetNames |-> find_path_to_source(t, suite)]]
    /\ Unchanged

\* trace_pii_leakage_path for every target; the function ignores pii_type
TracePiiLeakagePath ==
    /\ kind = "trace_pii_leakage_path"
    /\ result = Pending
    /\ result' = [status |-> "returned",
                  value |-> [t \in DatasetNames |->
                                trace_pii_leakage_path("email", t, suite)]]
    /\ Unchanged

RunSuite ==
    /\ kind = "run_suite"
    /\ result = Pending
    /\ result' = run_suite(suite_config)
    /\ Unchanged

ValidateFlow ==
    /\ kind = "validate_flow"
    /\ result = Pending
    /\ result' = validate_flow(suite_config)
    /\ Unchanged

Next ==
    \/ NoForbiddenPii
    \/ MaskingApplied
    \/ OnlyAllowedPii
    \/ NoPiiLeakage
    \/ MaxSeverity
    \/ IsCreditCard
    \/ MatcherMatches
    \/ MatcherDetectMasking
    \/ DetectPiiInValue
    \/ DetectCycles
    \/ ValidateLineageReferences
    \/ FindPathToSource
    \/ TracePiiLeakagePath
    \/ RunSuite
    \/ ValidateFlow

Spec == Init /\ [][Next]_vars

(***************************************************************************)
(* Vocabulary of the properties                                            *)
(***************************************************************************)
Done == result.status # "pending"

Returns == result.status = "returned"

Failed == Returns /\ ~result.passed

\* the findings of a returned result, as a set of positions
FindingIndexes == 1..Len(result.findings)

\* the column of df named name
ColumnNamed(name) == df[CHOOSE c \in 1..Len(df) : df[c].name = name]

\* the types the scan of df is restricted to or excludes, and the hash list
FilterTypes ==
    CASE kind = "no_forbidden_pii" -> policy.forbidden_pii_types
      [] kind = "masking_applied" -> policy.masking_required_for
      [] kind = "only_allowed_pii" -> policy.allowed_pii_types
      [] kind = "no_pii_leakage" -> RiskyTypes(source_df, policy)

\* every violating occurrence of a column, before any cap
Occurrences(column) ==
    ColumnViolations(kind, column.cells, Len(column.cells), FilterTypes,
                     policy.hash_allowed_for)

\* the violating occurrences of one type in a column, in row order
OccurrencesOf(column, pii_type) ==
    SelectSeq(Occurrences(column), LAMBDA e : e.pii_type = pii_type)

\* the types a non-null cell is detected as by registry, Luhn or entropy
DetectedTypes(cell) == CellTypes(cell)

AllCells(frame) ==
    UNION {{frame[c].cells[r] : r \in 1..Len(frame[c].cells)} : c \in 1..Len(frame)}

\* rank in the order critical > high > medium > low > info
SeverityRank(sev) ==
    CASE sev = "CRITICAL" -> 5
      [] sev = "HIGH" -> 4
      [] sev = "MEDIUM" -> 3
      [] sev = "LOW" -> 2
      [] sev = "INFO" -> 1

\* the highest-ranked element of a non-empty list of severities
HighestRanked(sevs) ==
    CHOOSE s \in {sevs[k] : k \in 1..Len(sevs)} :
        \A k \in 1..Len(sevs) : SeverityRank(s) >= SeverityRank(sevs[k])

(***************************************************************************)
(* C1: assert_no_forbidden_pii returns passed=False with severity CRITICAL *)
(* whenever some non-null, non-empty cell is detected as a forbidden type, *)
(* and passed=True with severity INFO when no cell is.  Stated for every   *)
(* positive cap on the recorded examples.                                  *)
(***************************************************************************)
C1_ForbiddenCellExists ==
    \E cell \in AllCells(df) : DetectedTypes(cell) \cap policy.forbidden_pii_types # {}

C1_ForbiddenVerdict ==
    (kind = "no_forbidden_pii" /\ Done /\ max_violations >= 1) =>
        /\ Returns
        /\ IF C1_ForbiddenCellExists
           THEN ~result.passed /\ result.severity = "CRITICAL"
           ELSE result.passed /\ result.severity = "INFO"

(***************************************************************************)
(* C2: in every Finding, count is the true total number of cells of the    *)
(* column that matched the type as a violation, also above max_violations. *)
(***************************************************************************)
C2_CountIsTrueTotal ==
    (kind \in AssertionKinds /\ Returns) =>
        \A k \in FindingIndexes :
            LET f == result.findings[k]
            IN  f.count = Len(OccurrencesOf(ColumnNamed(f.column), f.pii_type))

(***************************************************************************)
(* C3: the four assertions never raise; every call returns an              *)
(* AssertionResult.                                                        *)
(***************************************************************************)
C3_NeverRaises ==
    (kind \in AssertionKinds /\ Done) => Returns

C5_MaxIsHighestRanked ==
    (kind = "max" /\ Returns) => result.value = HighestRanked(severities)

(***************************************************************************)
(* C6: assert_masking_applied reports a (column, type) exactly when a cell *)
(* of the column is detected as a type of masking_required_for with        *)
(* masking plaintext, or hash without the type in hash_allowed_for; a      *)
(* column of plaintext SSNs fails CRITICAL, the masked column passes INFO. *)
(* Stated for every positive cap on the recorded examples.                 *)
(***************************************************************************)
C6_PlainOrBadHash(column, pii_type) ==
    \E r \in 1..Len(column.cells) :
        /\ ~column.cells[r].na
        /\ \E m \in MaskingType :
              /\ \E k \in 1..Len(ScanTable[column.cells[r].text].pattern_and_card) :
                    ScanTable[column.cells[r].text].pattern_and_card[k] = <<pii_type, m>>
              /\ \/ m = "plaintext"
                 \/ (m = "hash" /\ pii_type \notin policy.hash_allowed_for)

C6_MaskingRule ==
    (kind = "masking_applied" /\ Done /\ max_violations >= 1) =>
        /\ Returns
        /\ \A c \in 1..Len(df) : \A t \in PIIType :
              (\E k \in FindingIndexes :
                  /\ result.findings[k].column = df[c].name
                  /\ result.findings[k].pii_type = t)
              <=> (t \in policy.masking_required_for /\ C6_PlainOrBadHash(df[c], t))
        /\ result.passed => result.severity = "INFO"
        /\ ~result.passed =>
              \A k \in FindingIndexes :
                  result.findings[k].masking_type = "plaintext"
                      => result.findings[k].severity = "CRITICAL"

(***************************************************************************)
(* C7: Finding.redacted_sample never contains the whole value of the cell  *)
(* the finding was drawn from.                                             *)
(***************************************************************************)
C7_FlaggedValue(f) ==
    ScanTable[ColumnNamed(f.column).cells[f.row_index + 1].text].value_str

C7_SampleHidesValue ==
    (kind \in AssertionKinds /\ Returns) =>
        \A k \in FindingIndexes :
            ~IsSubstring(C7_FlaggedValue(result.findings[k]),
                         result.findings[k].redacted_sample)

(***************************************************************************)
(* C8: for max_violations >= 1 each assertion emits exactly one Finding    *)
(* per (column, PIIType) that has a violation, none for the others, and    *)
(* the Finding's row_index, redacted_sample and masking_type are those of  *)
(* the first violating cell of the column in row order.                    *)
(***************************************************************************)
C8_OneFindingPerBucket ==
    (kind \in AssertionKinds /\ Done /\ max_violations >= 1) =>
        /\ Returns
        /\ \A c \in 1..Len(df) : \A t \in PIIType :
              LET found == {k \in FindingIndexes :
                               /\ result.findings[k].column = df[c].name
                               /\ result.findings[k].pii_type = t}
                  occ == OccurrencesOf(df[c], t)
              IN  IF occ = << >> THEN found = {}
                  ELSE /\ Cardinality(found) = 1
                       /\ \A k \in found :
                             /\ result.findings[k].row_index = occ[1].idx
                             /\ result.findings[k].masking_type = occ[1].masking_type
                             /\ result.findings[k].redacted_sample =
                                    redact_value(occ[1].value_str, t).text

(***************************************************************************)
(* C9: assert_no_pii_leakage reports only types that are forbidden in the  *)
(* target and detected in the source, from cells of the target; with no    *)
(* such type it passes; every finding names the target dataset, is         *)
(* CRITICAL and its message starts with the leakage label.                 *)
(***************************************************************************)
C9_SourceTypes == UNION {DetectedTypes(cell) : cell \in AllCells(source_df)}

C9_LeakageScope ==
    (kind = "no_pii_leakage" /\ Done) =>
        /\ (policy.forbidden_pii_types \cap C9_SourceTypes = {})
              => (Returns /\ result.passed)
        /\ Returns =>
              \A k \in FindingIndexes :
                  LET f == result.findings[k]
                  IN  /\ f.pii_type \in policy.forbidden_pii_types
                      /\ f.pii_type \in C9_SourceTypes
                      /\ \E c \in 1..Len(df) :
                            /\ df[c].name = f.column
                            /\ f.row_index + 1 \in 1..Len(df[c].cells)
                            /\ f.pii_type \in DetectedTypes(df[c].cells[f.row_index + 1])
                      /\ f.dataset = policy.name
                      /\ f.severity = "CRITICAL"
                      /\ SubSeq(f.message, 1, 2) = <<"PII", "LEAKAGE:">>

\* a forbidden type sits in the target, is absent from the source and is not
\* reported, while another one is
C9_Witness ==
    /\ kind = "no_pii_leakage"
    /\ Failed
    /\ \E t \in policy.forbidden_pii_types \ C9_SourceTypes :
          \E cell \in AllCells(df) : t \in DetectedTypes(cell)

(***************************************************************************)
(* C10: a failing assert_no_pii_leakage result has severity CRITICAL, at   *)
(* least one finding, and a result message containing the word LEAKAGE.    *)
(***************************************************************************)
\* the words of the messages that contain the marker 'LEAKAGE'
LeakageMarkerWords == {"LEAKAGE", "LEAKAGE:"}

C10_FailureCarriesMarker ==
    (kind = "no_pii_leakage" /\ Failed) =>
        /\ result.severity = "CRITICAL"
        /\ Len(result.findings) >= 1
        /\ \E k \in 1..Len(result.message) : result.message[k] \in LeakageMarkerWords

(***************************************************************************)
(* C11: with an empty forbidden_pii_types (no-forbidden and leakage        *)
(* assertions) or an empty masking_required_for (masking assertion) the    *)
(* call returns passed=True, severity INFO and no findings whatever the    *)
(* cells hold, through the early return and its message, before any cell   *)
(* is scanned.                                                             *)
(***************************************************************************)
\* the call is one whose policy list is empty
C11_EmptyList ==
    \/ kind \in {"no_forbidden_pii", "no_pii_leakage"} /\ policy.forbidden_pii_types = {}
    \/ kind = "masking_applied" /\ policy.masking_required_for = {}

\* the message of the early return of each assertion
C11_EarlyMessage ==
    CASE kind = "no_forbidden_pii" ->
             <<"No", "forbidden", "PII", "types", "specified", "in", "policy">>
      [] kind = "masking_applied" ->
             <<"No", "masking", "requirements", "specified", "in", "policy">>
      [] kind = "no_pii_leakage" ->
             <<"No", "forbidden", "PII", "types", "in", "target", "policy">>

C11_EmptyListPasses ==
    (C11_EmptyList /\ Done) =>
        /\ Returns
        /\ result.passed
        /\ result.severity = "INFO"
        /\ result.findings = << >>
        /\ result.message = C11_EarlyMessage

\* the early return is taken on a dataset whose cell would be reported, and
\* would make the redaction raise, under any non-empty list naming its type
C11_Witness ==
    /\ kind = "masking_applied"
    /\ C11_EmptyList
    /\ Returns
    /\ \E cell \in AllCells(df) : ~cell.na /\ cell.text = TextEmptyLabelEmail

(***************************************************************************)
(* C12: assert_only_allowed_pii reports, with severity HIGH, every type    *)
(* detected in a column that is not in allowed_pii_types (all detected     *)
(* types when the allow-list is empty: there is no early exit), and passes *)
(* exactly when every detected type is allowed.  Stated for every positive *)
(* cap on the recorded examples.                                           *)
(***************************************************************************)
\* the types detected in a column
C12_ColumnTypes(column) ==
    UNION {DetectedTypes(column.cells[r]) : r \in 1..Len(column.cells)}

C12_AllowListIsStrict ==
    (kind = "only_allowed_pii" /\ Done /\ max_violations >= 1) =>
        /\ Returns
        /\ \A c \in 1..Len(df) : \A t \in PIIType :
              (\E k \in FindingIndexes :
                  /\ result.findings[k].column = df[c].name
                  /\ result.findings[k].pii_type = t)
              <=> (t \in C12_ColumnTypes(df[c]) /\ t \notin policy.allowed_pii_types)
        /\ \A k \in FindingIndexes : result.findings[k].severity = "HIGH"
        /\ result.passed <=>
              \A c \in 1..Len(df) : C12_ColumnTypes(df[c]) \subseteq policy.allowed_pii_types

(***************************************************************************)
(* C13: is_credit_card accepts every text that, once spaces and hyphens    *)
(* are removed, is a string of 13 to 19 digits whose Luhn sum is 0 modulo  *)
(* 10; and replacing any one digit of such a text by a different digit     *)
(* makes is_credit_card return false.                                      *)
(***************************************************************************)
\* the text without its spaces and hyphens
C13_Cleaned(text) == SelectSeq(text, LAMBDA c : c \notin {" ", "-"})

\* the Luhn sum of a digit string: from the right, every second digit is
\* doubled and reduced by 9 when the double exceeds 9
RECURSIVE C13_LuhnTotal(_, _)
C13_LuhnTotal(digits, i) ==
    IF i > Len(digits) THEN 0
    ELSE LET d == DigitValue(digits[i])
             from_right == Len(digits) - i + 1
             term == IF from_right % 2 = 1 THEN d
                     ELSE IF 2 * d > 9 THEN 2 * d - 9 ELSE 2 * d
         IN  term + C13_LuhnTotal(digits, i + 1)

C13_ValidNumber(text) ==
    LET digits == C13_Cleaned(text)
    IN  /\ Len(digits) \in 13..19
        /\ \A i \in 1..Len(digits) : digits[i] \in Digits
        /\ C13_LuhnTotal(digits, 1) % 10 = 0

C14_InvalidNumber(text) ==
    LET digits == C13_Cleaned(text)
    IN  /\ digits # << >>
        /\ \A i \in 1..Len(digits) : digits[i] \in Digits
        /\ \/ \A i \in 1..Len(digits) : digits[i] = "0"
           \/ Len(digits) < 13
           \/ Len(digits) = 16 /\ C13_LuhnTotal(digits, 1) % 10 # 0

C14_RejectsInvalidNumbers ==
    (kind = "is_credit_card" /\ Returns /\ C14_InvalidNumber(input)) => ~result.value

(***************************************************************************)
(* C15: detect_masking of every matcher and detect_credit_card_masking     *)
(* return hash only for a hexadecimal string of exactly 32, 40 or 64       *)
(* characters.                                                             *)
(***************************************************************************)
C15_HashLengths == {32, 40, 64}

C15_IsHashText(text) ==
    /\ Len(text) \in C15_HashLengths
    /\ \A i \in 1..Len(text) : text[i] \in HexChars

C15_HashOnlyForDigestLengths ==
    (kind = "detect_masking" /\ Returns) =>
        \A t \in DOMAIN result.value :
            result.value[t] = "hash" => C15_IsHashText(input)

(***************************************************************************)
(* C16: EmailMatcher.matches accepts a partially masked email whose local  *)
(* part and domain label are each a plaintext first character followed by *)
(* asterisks (j***@e***.com), and detect_masking classifies it             *)
(* partial_mask.                                                           *)
(***************************************************************************)
\* text[from..to] is one letter or digit followed by one or more asterisks
C16_FirstCharThenMask(text, from, to) ==
    /\ to > from
    /\ text[from] \in Letters \cup Digits
    /\ \A i \in (from + 1)..to : text[i] = "*"

C16_MaskedEmailForm(text) ==
    \E a \in 1..Len(text) : \E d \in (a + 1)..Len(text) :
        /\ text[a] = "@"
        /\ text[d] = "."
        /\ C16_FirstCharThenMask(text, 1, a - 1)
        /\ C16_FirstCharThenMask(text, a + 1, d - 1)
        /\ Len(text) - d >= 2
        /\ \A i \in (d + 1)..Len(text) : text[i] \in Letters

C16_MaskedEmailIsEmail ==
    (Returns /\ C16_MaskedEmailForm(input)) =>
        /\ kind = "matches" => result.value["email"]
        /\ kind = "detect_masking" => result.value["email"] = "partial_mask"

(***************************************************************************)
(* C17: a bare hexadecimal hash string of 32 to 64 characters is matched   *)
(* by no registry matcher and not by the Luhn check, so                    *)
(* assert_masking_applied passes on columns of such hashes whatever        *)
(* hash_allowed_for holds, and assert_no_pii_leakage passes when the       *)
(* target holds only such hashes.                                          *)
(***************************************************************************)
C17_IsBareHash(text) ==
    /\ Len(text) >= HashMinLen
    /\ Len(text) <= HashMaxLen
    /\ \A i \in 1..Len(text) : text[i] \in HexChars

\* every cell of the dataset is a bare hash
C17_OnlyHashes(frame) ==
    \A cell \in AllCells(frame) : ~cell.na /\ C17_IsBareHash(cell.text)

C17_HashIsNeverDetected ==
    /\ (Returns /\ C17_IsBareHash(input)) =>
          /\ kind = "matches" => \A t \in Registered : ~result.value[t]
          /\ kind = "detect_pii_in_value" => result.value = << >>
          /\ kind = "is_credit_card" => ~result.value
    /\ (Done /\ kind \in {"masking_applied", "no_pii_leakage"} /\ C17_OnlyHashes(df)) =>
          /\ Returns
          /\ result.passed
          /\ result.findings = << >>

\* a column of hashes passes though masking is required and no type may
\* be hashed
C17_Witness ==
    /\ kind = "masking_applied"
    /\ Returns
    /\ C17_OnlyHashes(df)
    /\ policy.masking_required_for # {}
    /\ policy.hash_allowed_for = {}
    /\ max_violations >= 1
    /\ result.passed

(***************************************************************************)
(* C18: on a lineage that is a single directed cycle detect_cycles returns *)
(* exactly one cycle, listed from the traversal root through every node    *)
(* and closed by repeating the root; and on every lineage, multi-edges     *)
(* included, it never returns the same cycle twice.                        *)
(***************************************************************************)
C18_NoMultiEdge(lineage) ==
    \A i, j \in 1..Len(lineage) : i # j => lineage[i] # lineage[j]

C18_Successor(lineage, node) ==
    lineage[CHOOSE i \in 1..Len(lineage) : lineage[i].source = node].target

\* the n nodes reached from node by following the edges
RECURSIVE C18_Walk(_, _, _)
C18_Walk(lineage, node, n) ==
    IF n = 0 THEN << >>
    ELSE <<node>> \o C18_Walk(lineage, C18_Successor(lineage, node), n - 1)

\* the edges form one directed cycle through all their nodes
C18_IsSingleCycle(lineage) ==
    /\ Len(lineage) >= 1
    /\ \A i, j \in 1..Len(lineage) :
          i # j => /\ lineage[i].source # lineage[j].source
                   /\ lineage[i].target # lineage[j].target
    /\ {lineage[i].source : i \in 1..Len(lineage)} =
          {lineage[i].target : i \in 1..Len(lineage)}
    /\ LET walk == C18_Walk(lineage, lineage[1].source, Len(lineage))
       IN  Cardinality({walk[i] : i \in 1..Len(walk)}) = Len(lineage)

C18_SingleCycleListedOnce ==
    (kind = "detect_cycles" /\ Returns /\ C18_IsSingleCycle(suite.lineage)) =>
        result.value =
            << C18_Walk(suite.lineage, suite.lineage[1].source, Len(suite.lineage))
               \o <<suite.lineage[1].source>> >>

C18_NoCycleTwice ==
    (kind = "detect_cycles" /\ Returns) =>
        \A i, j \in 1..Len(result.value) : i # j => result.value[i] # result.value[j]

\* the same, for the lineages that declare no edge twice
C18_NoCycleTwiceWithoutMultiEdge ==
    C18_NoMultiEdge(suite.lineage) => C18_NoCycleTwice

C18_CyclesAreDistinct == C18_SingleCycleListedOnce /\ C18_NoCycleTwice

(***************************************************************************)
(* C19: validate_lineage_references never raises; it returns one error     *)
(* string for each edge endpoint whose name is not a declared dataset      *)
(* name, so its list is empty exactly when every source and target is      *)
(* declared; and it leaves the configuration unchanged.                    *)
(***************************************************************************)
\* the endpoints of the lineage that name no declared dataset
C19_Dangling(config) ==
    {e \in (1..Len(config.lineage)) \X {"source", "target"} :
        config.lineage[e[1]][e[2]] \notin config.datasets}

C19_Error(config, e) ==
    <<"Lineage", "edge", "references", "unknown", e[2], "dataset:",
      config.lineage[e[1]][e[2]]>>

C19_ErrorPerDanglingEndpoint ==
    (kind = "validate_lineage_references" /\ Done) =>
        /\ Returns
        /\ Len(result.value) = Cardinality(C19_Dangling(suite))
        /\ \A e \in C19_Dangling(suite) :
              \E k \in 1..Len(result.value) : result.value[k] = C19_Error(suite, e)
        /\ \A k \in 1..Len(result.value) :
              \E e \in C19_Dangling(suite) : result.value[k] = C19_Error(suite, e)
        /\ result.value = << >> <=>
              \A i \in 1..Len(suite.lineage) :
                  /\ suite.lineage[i].source \in suite.datasets
                  /\ suite.lineage[i].target \in suite.datasets

C19_ReportsDanglingReferences ==
    /\ []C19_ErrorPerDanglingEndpoint
    /\ [][kind = "validate_lineage_references" => suite' = suite]_vars

\* errors are returned for a later edge of a lineage whose first edge is sound
C19_Witness ==
    /\ kind = "validate_lineage_references"
    /\ Returns
    /\ Len(suite.lineage) >= 2
    /\ suite.lineage[1].source \in suite.datasets
    /\ suite.lineage[1].target \in suite.datasets
    /\ Len(result.value) = 2

(***************************************************************************)
(* C20: the findings of an assertion call come in a fixed order: by column *)
(* in dataset column order, and within a column by the place where the     *)
(* type was first recorded while scanning rows top to bottom, the types of *)
(* one cell in the order email, phone, ssn, ip_address, zip_code, dob,     *)
(* account_number, credit_card, high_entropy_token.  The order is strict,  *)
(* so the inputs determine the sequence.                                   *)
(***************************************************************************)
C20_CellOrder ==
    <<"email", "phone", "ssn", "ip_address", "zip_code", "dob", "account_number",
      "credit_card", "high_entropy_token">>

C20_Rank(pii_type) ==
    CHOOSE r \in 1..Len(C20_CellOrder) : C20_CellOrder[r] = pii_type

C20_ColumnIndex(name) == CHOOSE c \in 1..Len(df) : df[c].name = name

\* the first row of the column at which the scan records the type
C20_FirstRow(column, pii_type) ==
    LET of_type == {OccurrencesOf(column, pii_type)[k].idx :
                       k \in 1..Len(OccurrencesOf(column, pii_type))}
    IN  CHOOSE row \in of_type : \A other \in of_type : row <= other

C20_Place(finding) ==
    <<C20_ColumnIndex(finding.column),
      C20_FirstRow(ColumnNamed(finding.column), finding.pii_type),
      C20_Rank(finding.pii_type)>>

C20_Before(a, b) ==
    \/ a[1] < b[1]
    \/ a[1] = b[1] /\ a[2] < b[2]
    \/ a[1] = b[1] /\ a[2] = b[2] /\ a[3] < b[3]

C21_IsEdge(lineage, u, v) ==
    \E k \in 1..Len(lineage) : lineage[k].source = u /\ lineage[k].target = v

C21_IsSourcePath(lineage, path, target) ==
    /\ Len(path) >= 1
    /\ path[Len(path)] = target
    /\ \A k \in 1..Len(lineage) : lineage[k].target # path[1]
    /\ \A i, j \in 1..Len(path) : i # j => path[i] # path[j]
    /\ \A i \in 1..(Len(path) - 1) : C21_IsEdge(lineage, path[i], path[i + 1])

C21_PathsLeadFromSources ==
    (kind = "find_path_to_source" /\ Done) =>
        /\ Returns
        /\ \A t \in DatasetNames : \A k \in 1..Len(result.value[t]) :
              C21_IsSourcePath(suite.lineage, result.value[t][k], t)

\* a path is returned for a target although one of its upstream walks runs
\* into a cycle
C21_Witness ==
    /\ kind = "find_path_to_source"
    /\ Returns
    /\ \E t \in DatasetNames :
          /\ Len(result.value[t]) >= 1
          /\ Len(result.value[t][1]) >= 2
          /\ \E u \in DatasetNames :
                /\ C21_IsEdge(suite.lineage, u, t)
                /\ C21_IsEdge(suite.lineage, t, u)

(***************************************************************************)
(* C22: trace_pii_leakage_path returns None exactly when                   *)
(* find_path_to_source enumerates no path for the target, and otherwise a  *)
(* path of minimal length among the enumerated ones, the first of them in  *)
(* enumeration order.                                                      *)
(***************************************************************************)
C22_Paths(t) == find_path_to_source(t, suite)

C22_FirstOfMinimalLength(path, paths) ==
    \E k \in 1..Len(paths) :
        /\ paths[k] = path
        /\ \A m \in 1..Len(paths) : Len(path) <= Len(paths[m])
        /\ \A m \in 1..(k - 1) : paths[m] # path => Len(paths[m]) > Len(path)

C22_ShortestPathOrNone ==
    (kind = "trace_pii_leakage_path" /\ Done) =>
        /\ Returns
        /\ \A t \in DatasetNames :
              /\ result.value[t] = None <=> C22_Paths(t) = << >>
              /\ C22_Paths(t) # << >> =>
                    C22_FirstOfMinimalLength(result.value[t].path, C22_Paths(t))

\* a target has two different paths of the smallest length
C22_Witness ==
    /\ kind = "trace_pii_leakage_path"
    /\ Returns
    /\ \E t \in DatasetNames : \E i, j \in 1..Len(C22_Paths(t)) :
          /\ i < j
          /\ C22_Paths(t)[i] # C22_Paths(t)[j]
          /\ Len(C22_Paths(t)[i]) = Len(C22_Paths(t)[j])
          /\ result.value[t] = Some(C22_Paths(t)[i])

(***************************************************************************)
(* C30: detect_cycles returns on every lineage; its list is empty exactly  *)
(* when the graph has no directed cycle, self-loops included; and every    *)
(* returned cycle is a closed walk: its first and last elements are equal  *)
(* and its consecutive pairs are declared edges.                           *)
(***************************************************************************)
\* the pairs <<u, v>> with a walk of 1 to n edges from u to v
C30_EdgePairs(lineage) ==
    {<<lineage[k].source, lineage[k].target>> : k \in 1..Len(lineage)}

RECURSIVE C30_Reach(_, _)
C30_Reach(lineage, n) ==
    IF n <= 1 THEN C30_EdgePairs(lineage)
    ELSE LET shorter == C30_Reach(lineage, n - 1)
         IN  shorter \cup
             {<<x[1][1], x[2][2]>> :
                 x \in {y \in shorter \X C30_EdgePairs(lineage) : y[1][2] = y[2][1]}}

C30_HasCycle(lineage) ==
    \E u \in DatasetNames : <<u, u>> \in C30_Reach(lineage, Len(lineage))

C30_IsClosedWalk(lineage, cycle) ==
    /\ Len(cycle) >= 2
    /\ cycle[1] = cycle[Len(cycle)]
    /\ \A i \in 1..(Len(cycle) - 1) :
          \E k \in 1..Len(lineage) :
              lineage[k].source = cycle[i] /\ lineage[k].target = cycle[i + 1]

C30_CyclesFoundExactlyWhenPresent ==
    (kind = "detect_cycles" /\ Done) =>
        /\ Returns
        /\ result.value = << >> <=> ~C30_HasCycle(suite.lineage)
        /\ \A c \in 1..Len(result.value) :
              C30_IsClosedWalk(suite.lineage, result.value[c])

\* a cycle that the traversal from the first key of the graph does not reach
C30_Witness ==
    /\ kind = "detect_cycles"
    /\ Returns
    /\ Len(result.value) = 1
    /\ \A i \in 1..Len(result.value[1]) :
          result.value[1][i] # suite.lineage[1].source

(***************************************************************************)
(* C26: the result of assert_no_forbidden_pii depends only on the dataset, *)
(* forbidden_pii_types and max_violations: policies that differ only in    *)
(* allowed_pii_types, masking_required_for or hash_allowed_for give the    *)
(* same outcome, so a type listed as both allowed and forbidden is still   *)
(* flagged.                                                                *)
(***************************************************************************)
\* the policies that differ from p in the three other lists only
C26_Variants(p) ==
    {[p EXCEPT !.allowed_pii_types = a, !.masking_required_for = m,
               !.hash_allowed_for = h] :
        a \in {{}, p.forbidden_pii_types},
        m \in {{}, p.forbidden_pii_types},
        h \in {{}, p.forbidden_pii_types}}

C26_ForbiddenIgnoresOtherLists ==
    (kind = "no_forbidden_pii" /\ Done) =>
        \A variant \in C26_Variants(policy) :
            assert_no_forbidden_pii(df, variant, max_violations) = result

\* a type that is both allowed and forbidden is reported
C26_Witness ==
    /\ kind = "no_forbidden_pii"
    /\ Returns
    /\ \E k \in FindingIndexes :
          result.findings[k].pii_type \in
              policy.allowed_pii_types \cap policy.forbidden_pii_types

(***************************************************************************)
(* C27: the verdict of each assertion does not depend on max_violations:   *)
(* calls that differ only in max_violations, 0 included, return the same   *)
(* passed flag and the same set of (column, PIIType) findings.             *)
(***************************************************************************)
\* the call of the state, repeated with another cap
C27_Rerun(cap) ==
    CASE kind = "no_forbidden_pii" -> assert_no_forbidden_pii(df, policy, cap)
      [] kind = "masking_applied" -> assert_masking_applied(df, policy, cap)
      [] kind = "only_allowed_pii" -> assert_only_allowed_pii(df, policy, cap)
      [] kind = "no_pii_leakage" ->
             assert_no_pii_leakage(source_df, df, source_policy, policy, cap)

C27_Reported(outcome) ==
    {<<outcome.findings[k].column, outcome.findings[k].pii_type>> :
        k \in 1..Len(outcome.findings)}

C27_SameVerdict(a, b) ==
    (a.status = "returned" /\ b.status = "returned") =>
        /\ a.passed = b.passed
        /\ C27_Reported(a) = C27_Reported(b)

C27_VerdictIgnoresCap ==
    (kind \in AssertionKinds /\ Done) =>
        \A cap \in 0..MaxViolations : C27_SameVerdict(result, C27_Rerun(cap))

\* the same, for the caps of at least 1
C27_VerdictIgnoresPositiveCap ==
    (kind \in AssertionKinds /\ Done /\ max_violations >= 1) =>
        \A cap \in 1..MaxViolations : C27_SameVerdict(result, C27_Rerun(cap))

(***************************************************************************)
(* C28: every AssertionResult returned by the four assertions has passed   *)
(* true exactly when findings is empty and severity INFO exactly when      *)
(* passed is true, and every Finding in it has a count of at least 1 and   *)
(* at most max_violations.                                                 *)
(***************************************************************************)
C28_ResultIsConsistent ==
    (kind \in AssertionKinds /\ Returns) =>
        /\ result.passed <=> result.findings = << >>
        /\ result.severity = "INFO" <=> result.passed
        /\ \A k \in FindingIndexes :
              /\ result.findings[k].count >= 1
              /\ result.findings[k].count <= max_violations

\* a failed result whose finding stands for more occurrences than the cap
\* lets it count
C28_Witness ==
    /\ kind \in AssertionKinds
    /\ Returns
    /\ ~result.passed
    /\ \E k \in FindingIndexes :
          /\ result.findings[k].count = max_violations
          /\ Len(OccurrencesOf(ColumnNamed(result.findings[k].column),
                               result.findings[k].pii_type)) > max_violations

(***************************************************************************)
(* C29: leakage findings refine forbidden findings on the target: whenever *)
(* assert_no_pii_leakage fails, assert_no_forbidden_pii on the target with *)
(* the same target policy and max_violations fails too, and each leakage   *)
(* finding has a forbidden finding with the same column, PII type, row     *)
(* index and count.                                                        *)
(***************************************************************************)
C29_Refines(leakage, forbidden) ==
    /\ forbidden.status = "returned"
    /\ ~forbidden.passed
    /\ \A k \in 1..Len(leakage.findings) :
          \E m \in 1..Len(forbidden.findings) :
              /\ forbidden.findings[m].column = leakage.findings[k].column
              /\ forbidden.findings[m].pii_type = leakage.findings[k].pii_type
              /\ forbidden.findings[m].row_index = leakage.findings[k].row_index
              /\ forbidden.findings[m].count = leakage.findings[k].count

C29_LeakageRefinesForbidden ==
    (kind = "no_pii_leakage" /\ Returns /\ ~result.passed) =>
        C29_Refines(result, assert_no_forbidden_pii(df, policy, max_violations))

\* the converse fails: the forbidden check of the target fails on a type
\* that the source does not hold, and the leakage check passes
C29_ConverseFails ==
    /\ kind = "no_pii_leakage"
    /\ Returns
    /\ result.passed
    /\ assert_no_forbidden_pii(df, policy, max_violations).status = "returned"
    /\ ~assert_no_forbidden_pii(df, policy, max_violations).passed

(***************************************************************************)
(* C23: run-suite exits with code 1 exactly when some assertion result has *)
(* passed = False and severity CRITICAL or HIGH (should_fail_ci), and with *)
(* code 0 otherwise, in particular when every assertion passes.  Stated    *)
(* for the runs in which every assertion returned.                         *)
(***************************************************************************)
C23_ExitCodeFollowsShouldFailCi ==
    (kind = "run_suite" /\ Done /\ result.reached = "summary") =>
        /\ result.code \in {0, 1}
        /\ result.code = 1 <=> should_fail_ci(result.assertion_results)

(***************************************************************************)
(* C24: validate-flow on a configuration with no lineage edges ends with   *)
(* exit code 0 and does not take the error path that reports 'Flow         *)
(* validation failed'.                                                     *)
(***************************************************************************)
C24_NoLineageExitsZero ==
    (kind = "validate_flow" /\ Done /\ suite_config.lineage = << >>) =>
        /\ result.code = 0
        /\ ~result.error_path

(***************************************************************************)
(* C25: in run-suite and validate-flow the lineage references are          *)
(* validated before any dataset is loaded or any assertion is run: when    *)
(* validate_lineage_references reports a dangling reference the command    *)
(* exits with code 1, no dataset loaded and no assertion result produced;  *)
(* when it reports none, the lookup of the source and target policies of   *)
(* every edge finds a declared dataset.                                    *)
(***************************************************************************)
C25_Dangling == validate_lineage_references(Declared(suite_config)) # << >>

C25_ValidationComesFirst ==
    (kind \in CliKinds /\ Done) =>
        /\ C25_Dangling =>
              /\ result.code = 1
              /\ result.loaded = << >>
              /\ result.assertion_results = << >>
        /\ ~C25_Dangling =>
              /\ \A k \in 1..Len(suite_config.lineage) :
                    /\ DatasetNamed(suite_config, suite_config.lineage[k].source) # 0
                    /\ DatasetNamed(suite_config, suite_config.lineage[k].target) # 0
              /\ result.reached = "assertions" =>
                    \A k \in 1..(Len(suite_config.lineage)) :
                        FlowCheck(suite_config,
                                  DatasetNamed(suite_config, suite_config.lineage[k].source),
                                  DatasetNamed(suite_config, suite_config.lineage[k].target))
                            # StopIteration

\* a command stops on a dangling reference of its second edge although every
\* data file is there and the first edge alone would produce a failed result
C25_Witness ==
    /\ kind \in CliKinds
    /\ Done
    /\ C25_Dangling
    /\ Len(suite_config.lineage) = 2
    /\ suite_config.lineage[1] = [source |-> "A", target |-> "B"]
    /\ \A i \in 1..Len(suite_config.datasets) : suite_config.datasets[i].file.exists
    /\ Len(suite_config.datasets) = 2
    /\ FlowCheck(suite_config, 1, 2).status = "returned"
    /\ ~FlowCheck(suite_config, 1, 2).passed
    /\ result.reached = "validation"

====
